---------------------------- MODULE Spec2Model ----------------------------
(***************************************************************************)
(* Model of pg_rman's restore orchestrator (restore.c, tag v1.1.2).        *)
(*                                                                         *)
(* One or two pg_rman restore processes run do_restore() on a shared       *)
(* backup catalog and a shared file system (PGDATA, the archive directory  *)
(* and the restore work area under BACKUP_PATH).  A process is a program   *)
(* counter with the locals of do_restore; every step of do_restore is one  *)
(* action.  elog() with an error code ends the process.                    *)
(***************************************************************************)
EXTENDS Integers, Sequences, FiniteSets, TLC

(* ------------------------------ bounds -------------------------------- *)
\* longest catalog drawn by Init
MaxBackups == 3
\* largest timeline id a backup, a history record or a target may carry
MaxTLI == 2
\* largest timeline id of the chains the WAL continuity check is run on
MaxWalTLI == 3
\* number of consecutive WAL segments, from the seed on, that may be on disk
MaxSegs == 4
\* longest timeline history file, in lines, and largest timeline id in one
MaxLines == 3
MaxHistTLI == 3
\* I/O errors, interrupt signals and repeated runs Init may allow
MaxFaults == 1
MaxSignals == 1
MaxReruns == 1

(* --------------------------- program values --------------------------- *)
\* BackupMode, ordered: ARCHIVE < INCREMENTAL < FULL
BACKUP_MODE_ARCHIVE == 1
BACKUP_MODE_INCREMENTAL == 2
BACKUP_MODE_FULL == 3
\* (uint32) -1, scaled to the width the model's LSNs use
UINT32_MAX == 255

Procs == {1, 2}
NoProc == 0
\* a pg_rman process other than the modelled ones (a running backup)
OtherPgRman == 3

TLIs == 1 .. MaxTLI

\* XLogRecPtr: <<xlogid, xrecoff>>
XLByteLT(a, b) == a[1] < b[1] \/ (a[1] = b[1] /\ a[2] < b[2])

\* end boundary of the target timeline
UnboundedLSN == <<UINT32_MAX, UINT32_MAX>>

\* compiled block sizes of the restoring server
BLCKSZ == 8192
XLOG_BLCKSZ == 8192
\* write_size of a manifest entry whose content was not captured
BYTES_INVALID == -1
\* bytes of a WAL segment, scaled like UINT32_MAX
XLogSegSize == 16
XLogSegsPerFile == UINT32_MAX \div XLogSegSize

(* ----------------------- timeline history ----------------------------- *)
\* a line of a history file: syn says how far the line parses
\*   "skip"   blank line or # comment
\*   "noid"   no numeric timeline id at the start of the line
\*   "noend"  nothing (or a comment) follows the id
\*   "badend" the name after the id is no WAL file name
\*   "ok"     <tli> <end WAL file name>
HistLine(syn, tli, end) == [syn |-> syn, tli |-> tli, end |-> end]

\* pgTimeLine
TimeLine(tli, end) == [tli |-> tli, end |-> end]

\* the parse loop building its list oldest first
RECURSIVE ParseHistory_OldestFirst(_, _, _, _)
ParseHistory_OldestFirst(lines, k, result, last) ==
    IF k > Len(lines) THEN [err |-> "", result |-> result, last |-> last]
    ELSE LET l == lines[k] IN
         IF l.syn = "skip" THEN ParseHistory_OldestFirst(lines, k + 1, result, last)
         ELSE IF l.syn = "noid"
              THEN [err |-> "ERROR_CORRUPTED", result |-> <<>>, last |-> last]
         ELSE IF last # 0 /\ l.tli <= last
              THEN [err |-> "ERROR_CORRUPTED", result |-> <<>>, last |-> last]
         ELSE IF l.syn \in {"noend", "badend"}
              THEN [err |-> "ERROR_CORRUPTED", result |-> <<>>, last |-> last]
         ELSE ParseHistory_OldestFirst(lines, k + 1,
                           Append(result, TimeLine(l.tli, l.end)), l.tli)

\* the parse loop of readTimeLineHistory over lines[k..]: result is the list
\* built so far (newest first), last the tli of last_timeline (0 = NULL)
RECURSIVE ParseHistory(_, _, _, _)
ParseHistory(lines, k, result, last) ==
    IF k > Len(lines) THEN [err |-> "", result |-> result, last |-> last]
    ELSE LET l == lines[k] IN
         IF l.syn = "skip" THEN ParseHistory(lines, k + 1, result, last)
         ELSE IF l.syn = "noid"
              THEN [err |-> "ERROR_CORRUPTED", result |-> <<>>, last |-> last]
         ELSE IF last # 0 /\ l.tli <= last
              THEN [err |-> "ERROR_CORRUPTED", result |-> <<>>, last |-> last]
         ELSE IF l.syn \in {"noend", "badend"}
              THEN [err |-> "ERROR_CORRUPTED", result |-> <<>>, last |-> last]
         ELSE ParseHistory(lines, k + 1,
                           <<TimeLine(l.tli, l.end)>> \o result, l.tli)

\* readTimeLineHistory without the comparison of the target with the last
\* timeline of the file
readTimeLineHistory_AnyTarget(lines, targetTLI) ==
    LET p == ParseHistory(lines, 1, <<>>, 0) IN
    IF p.err # "" THEN [err |-> p.err, result |-> <<>>]
    ELSE [err |-> "",
          result |-> <<TimeLine(targetTLI, UnboundedLSN)>> \o p.result]

\* readTimeLineHistory(targetTLI) on the history file found (<<>> when no
\* file exists): [err, result]; result[1] is the target timeline
readTimeLineHistory(lines, targetTLI) ==
    LET p == ParseHistory(lines, 1, <<>>, 0) IN
    IF p.err # "" THEN [err |-> p.err, result |-> <<>>]
    ELSE IF p.last # 0 /\ targetTLI <= p.last
         THEN [err |-> "ERROR_CORRUPTED", result |-> <<>>]
    ELSE [err |-> "",
          result |-> <<TimeLine(targetTLI, UnboundedLSN)>> \o p.result]

satisfy_timeline(timelines, backup) ==
    \E i \in 1 .. Len(timelines) :
        /\ backup.tli = timelines[i].tli
        /\ XLByteLT(backup.stop_lsn, timelines[i].end)

(* ------------------------------ backups ------------------------------- *)
HAVE_DATABASE(b) == b.have_database
HAVE_ARCLOG(b) == b.have_arclog

\* outcomes of pgBackupValidate(backup, true) on the backup's status
pgBackupValidate(status) == {"OK", "CORRUPT"}

\* get_fullbackup_timeline from index i (1-based here): the set of outcomes
\* [backups, err, tli]; a DONE full backup is validated on the way
RECURSIVE get_fullbackup_timeline(_, _)
get_fullbackup_timeline(bs, i) ==
    IF i > Len(bs)
    THEN {[backups |-> bs, err |-> "ERROR_NO_BACKUP", tli |-> 0]}
    ELSE IF bs[i].backup_mode >= BACKUP_MODE_FULL
         THEN IF bs[i].status = "DONE"
              THEN UNION { IF s = "OK"
                           THEN {[backups |-> [bs EXCEPT ![i].status = s],
                                  err |-> "", tli |-> bs[i].tli]}
                           ELSE get_fullbackup_timeline(
                                    [bs EXCEPT ![i].status = s], i + 1)
                           : s \in pgBackupValidate(bs[i].status) }
              ELSE IF bs[i].status = "OK"
                   THEN {[backups |-> bs, err |-> "", tli |-> bs[i].tli]}
                   ELSE get_fullbackup_timeline(bs, i + 1)
         ELSE get_fullbackup_timeline(bs, i + 1)


(* ------------------------------ paths --------------------------------- *)
\* A path below PGDATA is a tuple of numbers whose lexicographic order is the
\* strcmp order of the names: base < global < pg_xlog < postmaster.pid <
\* recovery.conf; a WAL segment pg_xlog/<tli><xlogid><seg> is <<3,tli,id,seg>>
\* and a history file pg_xlog/<tli>.history is <<3,tli,HIST>>.
P_BASE == <<1>>
P_BASE_1 == <<1, 1>>
P_BASE_2 == <<1, 2>>
P_GLOBAL == <<2>>
P_CONTROL == <<2, 1>>
P_XLOG == <<3>>
P_PID == <<4>>
P_CONF == <<5>>
\* the characters ".history" of a file name
HIST == -1

RECURSIVE PathLT(_, _)
PathLT(a, b) ==
    IF a = <<>> THEN b # <<>>
    ELSE IF b = <<>> THEN FALSE
    ELSE IF Head(a) # Head(b) THEN Head(a) < Head(b)
    ELSE PathLT(Tail(a), Tail(b))

\* first element of a list sorted with pgFileComparePathDesc
MaxPath(S) == CHOOSE x \in S : \A y \in S : y = x \/ PathLT(y, x)

\* files of PGDATA/pg_xlog, relative to it
XlogFiles(pg) == { Tail(x) : x \in { y \in DOMAIN pg : Len(y) > 1 /\ y[1] = 3 } }

\* pgdata_exclude: the entries the reconciliation pass never lists
Excluded(path) == path[1] = 3

\* a file system tree: a function from the paths present to their content
FsPut(fs, path, c) == [x \in DOMAIN fs \cup {path} |-> IF x = path THEN c ELSE fs[x]]
FsDel(fs, path) == [x \in DOMAIN fs \ {path} |-> fs[x]]
RECURSIVE FsPutAll(_, _, _)
FsPutAll(fs, paths, c) ==
    IF paths = {} THEN fs
    ELSE LET x == CHOOSE y \in paths : TRUE
         IN FsPutAll(FsPut(fs, x, c), paths \ {x}, c)

\* content of a directory, of a copied WAL or log file
PLAIN == 0

(* ------------------------------ state --------------------------------- *)
VARIABLES
    env,      \* the run's fixed surroundings: build, catalog on disk, history
              \* files, server log directory, server state
    lock,     \* holder of the catalog lock: NoProc, a process, OtherPgRman
    pgdata,   \* the data directory tree
    arclog,   \* ARCLOG_PATH: set of file names (tuples)
    work,     \* restore work area: [xlog: set of names, srvlog: set of names]
    loc,      \* per process: program counter and the locals of do_restore
    faults,   \* I/O errors the file system may still raise
    sigs,     \* interrupt signals the operator may still send
    reruns    \* times the operator may still start pg_rman again

vars == <<env, lock, pgdata, arclog, work, loc, faults, sigs, reruns>>

\* parray_get with the C code's 0-based index
Get(arr, i) == arr[i + 1]

\* elog() with an error code: the process ends with that exit code
elog(l, code) == [l EXCEPT !.pc = "exited", !.code = code, !.at = l.pc]

\* a process that ends without letting go of the catalog lock
LockKeptAfterExit(p) == lock

\* the catalog lock once process p has ended
LockAfterExit(p) == IF lock = p THEN NoProc ELSE lock

\* process p ends with error code
Fatal(p, code) ==
    /\ loc' = [loc EXCEPT ![p] = elog(loc[p], code)]
    /\ lock' = LockAfterExit(p)

\* catalog_lock(): 0 taken, 1 held by another pg_rman, -1 system error
catalog_lock(p) ==
    IF lock # NoProc /\ lock # p THEN {1} ELSE {0, -1}

\* get_current_timeline(): ThisTimeLineID of global/pg_control, 0 when the
\* file cannot be read or fails its checks
get_current_timeline(pg) ==
    IF P_CONTROL \in DOMAIN pg THEN pg[P_CONTROL] ELSE 0

\* the locals of do_restore at its entry
\* (at: the step that ended the run; db_calls, arc_calls, searches: the
\* calls of restore_database, restore_archive_logs and search_next_wal made
\* so far; pgdata0, arclog0, work0: the three
\* locations as the run found them; xlog_first: the online WAL before the
\* first run)
NewRun(check, args, target_tli, pg, arc, wk) ==
    [pc |-> "args", code |-> "", at |-> "", check |-> check, args |-> args,
     target_tli0 |-> target_tli, target_tli |-> target_tli,
     cur_tli |-> 0, backup_tli |-> 0, backups |-> <<>>, timelines |-> <<>>,
     i |-> 0, base_index |-> -1, last_restored_index |-> -1,
     db_calls |-> <<>>, arc_calls |-> <<>>, searches |-> <<>>,
     rd |-> [b |-> -1, files |-> <<>>, j |-> 0],
     again |-> [b |-> -1, tree |-> <<>>],
     todo |-> {}, needId |-> 0, needSeg |-> 0,
     interrupted |-> FALSE, snapshot |-> "none", cleared |-> FALSE,
     run |-> 1, pgdata0 |-> pg, arclog0 |-> arc, work0 |-> wk,
     xlog_first |-> XlogFiles(pg)]

(* --------------------------- do_restore ------------------------------- *)
\* lines 54-63: the three required parameters
CheckArgs(p) ==
    /\ loc[p].pc = "args"
    /\ IF ~loc[p].args.pgdata \/ ~loc[p].args.arclog_path \/ ~loc[p].args.srvlog_path
       THEN Fatal(p, "ERROR_ARGS")
       ELSE /\ loc' = [loc EXCEPT ![p].pc = "lock"]
            /\ UNCHANGED lock
    /\ UNCHANGED <<env, pgdata, arclog, work, faults, sigs, reruns>>

\* lines 71-77 without the test of ret == 1: the run goes on although
\* another pg_rman holds the lock
CatalogLock_Unchecked(p) ==
    /\ loc[p].pc = "lock"
    /\ \E ret \in catalog_lock(p) :
          IF ret = -1 THEN faults > 0 /\ faults' = faults - 1
                           /\ Fatal(p, "ERROR_SYSTEM")
          ELSE /\ lock' = p
               /\ loc' = [loc EXCEPT ![p].pc = "pg_running"]
               /\ UNCHANGED faults
    /\ UNCHANGED <<env, pgdata, arclog, work, sigs, reruns>>

\* lines 71-77: get exclusive lock of backup catalog
CatalogLock(p) ==
    /\ loc[p].pc = "lock"
    /\ \E ret \in catalog_lock(p) :
          IF ret = -1 THEN faults > 0 /\ faults' = faults - 1
                           /\ Fatal(p, "ERROR_SYSTEM")
          ELSE IF ret = 1 THEN Fatal(p, "ERROR_ALREADY_RUNNING")
                               /\ UNCHANGED faults
          ELSE /\ lock' = p
               /\ loc' = [loc EXCEPT ![p].pc = "pg_running"]
               /\ UNCHANGED faults
    /\ UNCHANGED <<env, pgdata, arclog, work, sigs, reruns>>

\* lines 79-81 without the call of is_pg_running
CheckPgRunning_Skipped(p) ==
    /\ loc[p].pc = "pg_running"
    /\ loc' = [loc EXCEPT ![p].pc = "get_list"]
    /\ UNCHANGED <<env, lock, pgdata, arclog, work, faults, sigs, reruns>>

\* lines 79-81: confirm the PostgreSQL server is not running
CheckPgRunning(p) ==
    /\ loc[p].pc = "pg_running"
    /\ IF env.pg_running
       THEN Fatal(p, "ERROR_PG_RUNNING")
       ELSE /\ loc' = [loc EXCEPT ![p].pc = "get_list"]
            /\ UNCHANGED lock
    /\ UNCHANGED <<env, pgdata, arclog, work, faults, sigs, reruns>>

\* lines 83-98: load the catalog, read both timelines, settle the target
GetBackupList(p) ==
    /\ loc[p].pc = "get_list"
    /\ \E r \in get_fullbackup_timeline(env.catalog, 1) :
          IF r.err # ""
          THEN Fatal(p, r.err)
          ELSE LET cur == get_current_timeline(pgdata)
                   tgt == IF loc[p].target_tli = 0
                          THEN (IF cur # 0 THEN cur ELSE r.tli)
                          ELSE loc[p].target_tli
               IN /\ loc' = [loc EXCEPT ![p].pc = "backup_online",
                                        ![p].backups = r.backups,
                                        ![p].cur_tli = cur,
                                        ![p].backup_tli = r.tli,
                                        ![p].target_tli = tgt]
                  /\ UNCHANGED lock
    /\ UNCHANGED <<env, pgdata, arclog, work, faults, sigs, reruns>>


\* backup_online_files called with cur_tli # backup_tli for re_recovery
BackupOnlineFiles_UnknownIsOther(p) ==
    /\ loc[p].pc = "backup_online"
    /\ LET re_recovery == loc[p].cur_tli # loc[p].backup_tli
           files_exist == work.xlog # {}
       IN IF files_exist /\ ~re_recovery
          THEN loc' = [loc EXCEPT ![p].pc = "clear", ![p].snapshot = "reused"]
          ELSE loc' = [loc EXCEPT ![p].pc = "snap_xlog",
                                  ![p].snapshot = "copying",
                                  ![p].todo = XlogFiles(pgdata)]
    /\ UNCHANGED <<env, lock, pgdata, arclog, work, faults, sigs, reruns>>

\* lines 597-615 of backup_online_files(cur_tli # 0 && cur_tli # backup_tli):
\* use the snapshot already in the work area, or take a new one
BackupOnlineFiles(p) ==
    /\ loc[p].pc = "backup_online"
    /\ LET re_recovery == loc[p].cur_tli # 0 /\ loc[p].cur_tli # loc[p].backup_tli
           files_exist == work.xlog # {}
       IN IF files_exist /\ ~re_recovery
          THEN loc' = [loc EXCEPT ![p].pc = "clear", ![p].snapshot = "reused"]
          ELSE loc' = [loc EXCEPT ![p].pc = "snap_xlog",
                                  ![p].snapshot = "copying",
                                  ![p].todo = XlogFiles(pgdata)]
    /\ UNCHANGED <<env, lock, pgdata, arclog, work, faults, sigs, reruns>>

\* the snapshot of lines 617-622 taken by moving the files out of PGDATA
SnapshotXlog_Move(p) ==
    /\ loc[p].pc = "snap_xlog"
    /\ IF loc[p].todo = {}
       THEN /\ loc' = [loc EXCEPT ![p].pc = "snap_srvlog"]
            /\ UNCHANGED <<work, pgdata>>
       ELSE \E f \in loc[p].todo :
               /\ work' = [work EXCEPT !.xlog = @ \cup {f}]
               /\ pgdata' = FsDel(pgdata, <<3>> \o f)
               /\ loc' = [loc EXCEPT ![p].todo = @ \ {f}]
    /\ UNCHANGED <<env, lock, arclog, faults, sigs, reruns>>

\* lines 617-622: dir_copy_files(PGDATA/pg_xlog, work area), one file a step
SnapshotXlog(p) ==
    /\ loc[p].pc = "snap_xlog"
    /\ IF loc[p].todo = {}
       THEN /\ loc' = [loc EXCEPT ![p].pc = "snap_srvlog"]
            /\ UNCHANGED work
       ELSE \E f \in loc[p].todo :
               /\ work' = [work EXCEPT !.xlog = @ \cup {f}]
               /\ loc' = [loc EXCEPT ![p].todo = @ \ {f}]
    /\ UNCHANGED <<env, lock, pgdata, arclog, faults, sigs, reruns>>

\* lines 624-628: dir_copy_files(SRVLOG_PATH, work area)
SnapshotSrvlog(p) ==
    /\ loc[p].pc = "snap_srvlog"
    /\ work' = [work EXCEPT !.srvlog = @ \cup env.srvlog]
    /\ loc' = [loc EXCEPT ![p].pc = "clear", ![p].snapshot = "copied"]
    /\ UNCHANGED <<env, lock, pgdata, arclog, faults, sigs, reruns>>

\* lines 103-125: clear the restore destination, from the leaves; one
\* pgFileDelete a step
ClearDestination(p) ==
    /\ loc[p].pc = "clear"
    /\ IF loc[p].check \/ DOMAIN pgdata = {}
       THEN /\ loc' = [loc EXCEPT ![p].pc = "history"]
            /\ UNCHANGED pgdata
       ELSE /\ pgdata' = FsDel(pgdata, MaxPath(DOMAIN pgdata))
            /\ loc' = [loc EXCEPT ![p].cleared = TRUE]
    /\ UNCHANGED <<env, lock, arclog, work, faults, sigs, reruns>>

\* the history file readTimeLineHistory opens for targetTLI: ARCLOG_PATH
\* first, the work area's pg_xlog next, <<>> when neither has it
HistoryFile(arc, wk, targetTLI) ==
    IF <<targetTLI, HIST>> \in arc \/ <<targetTLI, HIST>> \in wk.xlog
    THEN env.history[targetTLI]
    ELSE <<>>

\* lines 127-135: restore the timeline history files, read the branches
RestoreHistory(p) ==
    /\ loc[p].pc = "history"
    /\ arclog' = arclog \cup { <<t, HIST>> : t \in env.tlhist }
    /\ LET r == readTimeLineHistory(
                    HistoryFile(arclog', work, loc[p].target_tli),
                    loc[p].target_tli)
       IN IF r.err # ""
          THEN Fatal(p, r.err)
          ELSE /\ loc' = [loc EXCEPT ![p].pc = "find_base",
                                     ![p].timelines = r.result]
               /\ UNCHANGED lock
    /\ UNCHANGED <<env, pgdata, work, faults, sigs, reruns>>

\* the scan for the base backup without the timeline test: the newest
\* full backup that is OK
RECURSIVE FindBase_AnyTimeline(_, _, _, _)
FindBase_AnyTimeline(bs, tls, i, libz) ==
    IF i >= Len(bs) THEN [kind |-> "ERROR_NO_BACKUP", i |-> i]
    ELSE LET b == Get(bs, i) IN
         IF b.backup_mode < BACKUP_MODE_FULL \/ b.status # "OK"
         THEN FindBase_AnyTimeline(bs, tls, i + 1, libz)
         ELSE IF ~libz /\ b.compress_data /\ (HAVE_DATABASE(b) \/ HAVE_ARCLOG(b))
              THEN [kind |-> "EXIT_NOT_SUPPORTED", i |-> i]
         ELSE [kind |-> "found", i |-> i]

\* the scan for the base backup run from the wrong end of the catalog: the
\* oldest full, OK backup the timelines admit
FindBase_Oldest(bs, tls, i, libz) ==
    LET usable == { k \in i .. Len(bs) - 1 :
                      /\ Get(bs, k).backup_mode >= BACKUP_MODE_FULL
                      /\ Get(bs, k).status = "OK"
                      /\ satisfy_timeline(tls, Get(bs, k)) }
    IN IF usable = {} THEN [kind |-> "ERROR_NO_BACKUP", i |-> Len(bs)]
       ELSE [kind |-> "found", i |-> CHOOSE k \in usable : \A j \in usable : j <= k]

\* lines 140-161: the scan for the base backup from index i (0-based)
RECURSIVE FindBase(_, _, _, _)
FindBase(bs, tls, i, libz) ==
    IF i >= Len(bs) THEN [kind |-> "ERROR_NO_BACKUP", i |-> i]
    ELSE LET b == Get(bs, i) IN
         IF b.backup_mode < BACKUP_MODE_FULL \/ b.status # "OK"
         THEN FindBase(bs, tls, i + 1, libz)
         ELSE IF ~libz /\ b.compress_data /\ (HAVE_DATABASE(b) \/ HAVE_ARCLOG(b))
              THEN [kind |-> "EXIT_NOT_SUPPORTED", i |-> i]
         ELSE IF satisfy_timeline(tls, b)
              THEN [kind |-> "found", i |-> i]
         ELSE FindBase(bs, tls, i + 1, libz)

\* lines 137-171: find the base backup and call restore_database on it
FindBaseBackup(p) ==
    /\ loc[p].pc = "find_base"
    /\ LET r == FindBase(loc[p].backups, loc[p].timelines, 0, env.have_libz)
       IN IF r.kind # "found"
          THEN Fatal(p, r.kind)
          ELSE /\ loc' = [loc EXCEPT
                    ![p].pc = "rd_start",
                    ![p].i = r.i,
                    ![p].base_index = r.i,
                    ![p].rd = [b |-> r.i, files |-> <<>>, j |-> 0],
                    ![p].db_calls = Append(@, [index |-> r.i,
                                               backup |-> Get(loc[p].backups, r.i)])]
               /\ UNCHANGED lock
    /\ UNCHANGED <<env, pgdata, arclog, work, faults, sigs, reruns>>


(* ------------------------- restore_database --------------------------- *)
\* content restore_data_file writes at path from backup b: the control file
\* carries the backup's timeline, any other file the backup's identity
FileContent(b, path) == IF path = P_CONTROL THEN b.tli ELSE b.id

\* the directories mkdirs.sh creates
MkDirs(b) == { b.files[k].path : k \in { n \in 1 .. Len(b.files) : b.files[n].isdir } }

\* lines 357-365: the manifest without the entries that are not backed up
RECURSIVE BackedUp(_)
BackedUp(files) ==
    IF files = <<>> THEN <<>>
    ELSE IF Head(files).write_size = BYTES_INVALID THEN BackedUp(Tail(files))
    ELSE <<Head(files)>> \o BackedUp(Tail(files))

\* lines 298-319 without the test of wal_block_size
RdStart_WalUnchecked(p) ==
    /\ loc[p].pc = "rd_start"
    /\ LET b == Get(loc[p].backups, loc[p].rd.b)
       IN IF b.block_size # BLCKSZ
          THEN Fatal(p, "ERROR_PG_INCOMPATIBLE")
          ELSE /\ \E s \in pgBackupValidate(b.status) :
                    loc' = [loc EXCEPT ![p].pc = "rd_mkdirs",
                                       ![p].backups[loc[p].rd.b + 1].status = s]
               /\ UNCHANGED lock
    /\ UNCHANGED <<env, pgdata, arclog, work, faults, sigs, reruns>>

\* lines 298-319: block sizes, then validation by size
RdStart(p) ==
    /\ loc[p].pc = "rd_start"
    /\ LET b == Get(loc[p].backups, loc[p].rd.b)
       IN IF b.block_size # BLCKSZ \/ b.wal_block_size # XLOG_BLCKSZ
          THEN Fatal(p, "ERROR_PG_INCOMPATIBLE")
          ELSE /\ \E s \in pgBackupValidate(b.status) :
                    loc' = [loc EXCEPT ![p].pc = "rd_mkdirs",
                                       ![p].backups[loc[p].rd.b + 1].status = s]
               /\ UNCHANGED lock
    /\ UNCHANGED <<env, pgdata, arclog, work, faults, sigs, reruns>>

\* lines 321-365: make directories, read the list of files to restore
RdMkdirs(p) ==
    /\ loc[p].pc = "rd_mkdirs"
    /\ LET b == Get(loc[p].backups, loc[p].rd.b)
       IN /\ pgdata' = IF loc[p].check THEN pgdata
                       ELSE FsPutAll(pgdata, MkDirs(b), PLAIN)
          /\ loc' = [loc EXCEPT ![p].pc = "rd_files",
                                ![p].rd.files = BackedUp(b.files),
                                ![p].rd.j = 0]
    /\ UNCHANGED <<env, lock, arclog, work, faults, sigs, reruns>>

\* lines 367-407: one iteration of the loop that restores files into PGDATA
RdFile(p) ==
    /\ loc[p].pc = "rd_files"
    /\ LET b == Get(loc[p].backups, loc[p].rd.b)
           j == loc[p].rd.j
       IN IF j >= Len(loc[p].rd.files)
          THEN /\ loc' = [loc EXCEPT ![p].pc = "rd_reconcile"]
               /\ UNCHANGED <<lock, pgdata>>
          ELSE IF loc[p].interrupted
          THEN /\ Fatal(p, "ERROR_INTERRUPTED")
               /\ UNCHANGED pgdata
          ELSE LET file == Get(loc[p].rd.files, j)
               IN /\ pgdata' = IF file.isdir \/ file.write_size = BYTES_INVALID
                                  \/ loc[p].check
                               THEN pgdata
                               ELSE FsPut(pgdata, file.path, FileContent(b, file.path))
                  /\ loc' = [loc EXCEPT ![p].rd.j = j + 1]
                  /\ UNCHANGED lock
    /\ UNCHANGED <<env, arclog, work, faults, sigs, reruns>>

\* the reconciliation pass run against the list of captured files only
Extras_Captured(pg, b) ==
    { x \in DOMAIN pg :
        /\ ~Excluded(x)
        /\ \A k \in 1 .. Len(BackedUp(b.files)) : BackedUp(b.files)[k].path # x }

\* the entries of PGDATA the reconciliation pass deletes for backup b
Extras(pg, b) ==
    { x \in DOMAIN pg :
        /\ ~Excluded(x)
        /\ \A k \in 1 .. Len(b.files) : b.files[k].path # x }

\* lines 409-442 run only in the call for the newest backup of the catalog
RdReconcile_NewestOnly(p) ==
    /\ loc[p].pc = "rd_reconcile"
    /\ LET b == Get(loc[p].backups, loc[p].rd.b)
       IN IF loc[p].check \/ loc[p].rd.b > 0 \/ Extras(pgdata, b) = {}
          THEN /\ loc' = [loc EXCEPT ![p].pc = "rd_pid"]
               /\ UNCHANGED pgdata
          ELSE /\ pgdata' = FsDel(pgdata, MaxPath(Extras(pgdata, b)))
               /\ UNCHANGED loc
    /\ UNCHANGED <<env, lock, arclog, work, faults, sigs, reruns>>

\* lines 409-442 with the loop left after the first pgFileDelete
RdReconcile_OneDelete(p) ==
    /\ loc[p].pc = "rd_reconcile"
    /\ LET b == Get(loc[p].backups, loc[p].rd.b)
       IN /\ loc' = [loc EXCEPT ![p].pc = "rd_pid"]
          /\ pgdata' = IF loc[p].check \/ Extras(pgdata, b) = {} THEN pgdata
                        ELSE FsDel(pgdata, MaxPath(Extras(pgdata, b)))
    /\ UNCHANGED <<env, lock, arclog, work, faults, sigs, reruns>>

\* lines 409-442: delete files which are not in the file list, from the
\* leaves; one pgFileDelete a step
RdReconcile(p) ==
    /\ loc[p].pc = "rd_reconcile"
    /\ LET b == Get(loc[p].backups, loc[p].rd.b)
       IN IF loc[p].check \/ Extras(pgdata, b) = {}
          THEN /\ loc' = [loc EXCEPT ![p].pc = "rd_pid"]
               /\ UNCHANGED pgdata
          ELSE /\ pgdata' = FsDel(pgdata, MaxPath(Extras(pgdata, b)))
               /\ UNCHANGED loc
    /\ UNCHANGED <<env, lock, arclog, work, faults, sigs, reruns>>

\* lines 444-456 and the caller's lines 171/197: remove postmaster.pid,
\* return, and record the index as last restored
RdRemovePid(p) ==
    /\ loc[p].pc = "rd_pid"
    /\ pgdata' = FsDel(pgdata, P_PID)
    /\ loc' = [loc EXCEPT ![p].pc = "incr",
                          ![p].last_restored_index = loc[p].rd.b,
                          ![p].i = loc[p].rd.b - 1]
    /\ UNCHANGED <<env, lock, arclog, work, faults, sigs, reruns>>

\* restore_database is applied once more to the backup it has just
\* restored, on PGDATA as that application left it; again keeps the index
\* of the backup and the tree the first application left
RestoreDatabaseAgain(p) ==
    /\ loc[p].pc = "incr"
    /\ loc[p].last_restored_index >= 0
    /\ loc[p].i = loc[p].last_restored_index - 1
    /\ loc[p].again.b # loc[p].last_restored_index
    /\ loc' = [loc EXCEPT
                 ![p].pc = "rd_start",
                 ![p].rd = [b |-> loc[p].last_restored_index, files |-> <<>>, j |-> 0],
                 ![p].again = [b |-> loc[p].last_restored_index, tree |-> pgdata]]
    /\ UNCHANGED <<env, lock, pgdata, arclog, work, faults, sigs, reruns>>

\* the test of lines 180-191 without the comparison of timelines
UseIncremental_AnyTimeline(timelines, base_backup, backup) ==
    ~ \/ backup.status # "OK"
      \/ backup.backup_mode < BACKUP_MODE_INCREMENTAL
      \/ ~satisfy_timeline(timelines, backup)

\* lines 180-191: is the backup restored on top of the base backup
UseIncremental(timelines, base_backup, backup) ==
    ~ \/ backup.status # "OK"
      \/ backup.tli # base_backup.tli
      \/ backup.backup_mode < BACKUP_MODE_INCREMENTAL
      \/ ~satisfy_timeline(timelines, backup)

\* lines 176-198: one iteration of the loop over the backups after the base
IncrementalStep(p) ==
    /\ loc[p].pc = "incr"
    /\ LET i == loc[p].i
           base_backup == Get(loc[p].backups, loc[p].base_index)
       IN IF i < 0
          THEN loc' = [loc EXCEPT ![p].pc = "arc_init"]
          ELSE LET backup == Get(loc[p].backups, i)
               IN IF ~UseIncremental(loc[p].timelines, base_backup, backup)
                  THEN loc' = [loc EXCEPT ![p].i = i - 1]
                  ELSE loc' = [loc EXCEPT
                          ![p].pc = "rd_start",
                          ![p].rd = [b |-> i, files |-> <<>>, j |-> 0],
                          ![p].db_calls = Append(@, [index |-> i, backup |-> backup])]
    /\ UNCHANGED <<env, lock, pgdata, arclog, work, faults, sigs, reruns>>


(* ----------------------- archived WAL, check mode --------------------- *)
\* XLogFileName(fname, tli, log, seg)
XLogFileName(tli, log, seg) == <<tli, log, seg>>

\* NextLogSeg(logId, logSeg)
NextLogSeg(log, seg) ==
    IF seg >= XLogSegsPerFile - 1 THEN <<(log + 1) % (UINT32_MAX + 1), 0>>
    ELSE <<log, seg + 1>>

\* lines 964-966, "delete old TLI": j runs from i + 1 while j < parray_num,
\* and every pass removes the element at i + 1 (i is 1-based here)
DeleteOldTLI(timelines, i) ==
    LET m == Len(timelines) - i
        removed == (m + 1) \div 2
    IN SubSeq(timelines, 1, i) \o SubSeq(timelines, i + removed + 1, Len(timelines))

\* search_next_wal(path, &needId, &needSeg, timelines) where present is the
\* set of file names under path and found the xlogfname of every pass that
\* found a file: [needId, needSeg, timelines, count, found]; the function
\* prints found[1] and, when count > 1, found[count]
RECURSIVE search_next_wal(_, _, _, _, _)
search_next_wal(present, needId, needSeg, timelines, found) ==
    LET hits == { i \in 1 .. Len(timelines) :
                    XLogFileName(timelines[i].tli, needId, needSeg) \in present }
    IN IF hits = {}
       THEN [needId |-> needId, needSeg |-> needSeg,
             timelines |-> timelines, count |-> Len(found), found |-> found]
       ELSE LET i == CHOOSE h \in hits : \A g \in hits : h <= g
                next == NextLogSeg(needId, needSeg)
            IN search_next_wal(present, next[1], next[2],
                               DeleteOldTLI(timelines, i),
                               Append(found, XLogFileName(timelines[i].tli,
                                                          needId, needSeg)))

\* the record of one call of search_next_wal: what it was given, what it left
SearchCall(present, needId, needSeg, timelines, r) ==
    [present |-> present, needId |-> needId, needSeg |-> needSeg,
     timelines |-> timelines, out |-> r]

\* lines 508-509: strstr(path, ".history") == path + strlen(path) -
\* strlen(".history"): the first ".history" of the path is its end; the
\* path is file->path, which starts with the backup's ARCLOG_DIR (line 490)
IsHistoryName(path) ==
    /\ \E k \in 1 .. Len(path) : path[k] = HIST
    /\ (CHOOSE k \in 1 .. Len(path) :
           path[k] = HIST /\ \A n \in 1 .. k - 1 : path[n] # HIST) = Len(path)

\* the files a backup stores under its ARCLOG_DIR
StoredArclog(b) ==
    { b.arc_files[k].path :
        k \in { n \in 1 .. Len(b.arc_files) : b.arc_files[n].write_size # BYTES_INVALID } }

\* lines 208-214 with the byte offset taken for the segment number
ArchiveInit_RawOffset(p) ==
    /\ loc[p].pc = "arc_init"
    /\ LET backup == Get(loc[p].backups, loc[p].last_restored_index)
       IN loc' = [loc EXCEPT
             ![p].pc = "arc",
             ![p].i = loc[p].last_restored_index,
             ![p].needId = IF loc[p].check THEN backup.start_lsn[1] ELSE 0,
             ![p].needSeg = IF loc[p].check THEN backup.start_lsn[2] ELSE 0]
    /\ UNCHANGED <<env, lock, pgdata, arclog, work, faults, sigs, reruns>>

\* lines 208-216 with the loop over the archived WAL started at the base
\* backup
ArchiveInit_FromBase(p) ==
    /\ loc[p].pc = "arc_init"
    /\ LET backup == Get(loc[p].backups, loc[p].last_restored_index)
       IN loc' = [loc EXCEPT
             ![p].pc = "arc",
             ![p].i = loc[p].base_index,
             ![p].needId = IF loc[p].check THEN backup.start_lsn[1] ELSE 0,
             ![p].needSeg = IF loc[p].check
                            THEN backup.start_lsn[2] \div XLogSegSize ELSE 0]
    /\ UNCHANGED <<env, lock, pgdata, arclog, work, faults, sigs, reruns>>

\* lines 208-214: seed the needed segment from the last restored backup
ArchiveInit(p) ==
    /\ loc[p].pc = "arc_init"
    /\ LET backup == Get(loc[p].backups, loc[p].last_restored_index)
       IN loc' = [loc EXCEPT
             ![p].pc = "arc",
             ![p].i = loc[p].last_restored_index,
             ![p].needId = IF loc[p].check THEN backup.start_lsn[1] ELSE 0,
             ![p].needSeg = IF loc[p].check
                            THEN backup.start_lsn[2] \div XLogSegSize ELSE 0]
    /\ UNCHANGED <<env, lock, pgdata, arclog, work, faults, sigs, reruns>>

\* the test of lines 220-229 without the test of the status
UseArchive_AnyStatus(timelines, backup) ==
    ~ \/ ~HAVE_ARCLOG(backup)
      \/ ~satisfy_timeline(timelines, backup)

\* lines 220-229: is the backup's archived WAL restored
UseArchive(timelines, backup) ==
    ~ \/ backup.status # "OK"
      \/ ~HAVE_ARCLOG(backup)
      \/ ~satisfy_timeline(timelines, backup)

\* lines 216-231: one iteration of the loop over the backups with archived WAL
ArchiveStep(p) ==
    /\ loc[p].pc = "arc"
    /\ LET i == loc[p].i
       IN IF i < 0
          THEN loc' = [loc EXCEPT ![p].pc = "online"]
          ELSE LET backup == Get(loc[p].backups, i)
               IN IF ~UseArchive(loc[p].timelines, backup)
                  THEN loc' = [loc EXCEPT ![p].i = i - 1]
                  ELSE loc' = [loc EXCEPT
                          ![p].pc = "ra_files",
                          ![p].rd = [b |-> i, files |-> backup.arc_files, j |-> 0],
                          ![p].arc_calls = Append(@, [index |-> i, backup |-> backup])]
    /\ UNCHANGED <<env, lock, pgdata, arclog, work, faults, sigs, reruns>>

\* lines 482-543 and 233-239 without the test of interrupted
RaFile_Unpolled(p) ==
    /\ loc[p].pc = "ra_files"
    /\ LET b == Get(loc[p].backups, loc[p].rd.b)
           j == loc[p].rd.j
       IN IF j >= Len(loc[p].rd.files)
          THEN /\ IF loc[p].check
                  THEN LET r == search_next_wal(StoredArclog(b), loc[p].needId,
                                         loc[p].needSeg, loc[p].timelines, <<>>)
                       IN loc' = [loc EXCEPT ![p].pc = "arc",
                                             ![p].i = loc[p].rd.b - 1,
                                             ![p].needId = r.needId,
                                             ![p].needSeg = r.needSeg,
                                             ![p].timelines = r.timelines,
                                             ![p].searches = Append(@,
                                                 SearchCall(StoredArclog(b),
                                                     loc[p].needId, loc[p].needSeg,
                                                     loc[p].timelines, r))]
                  ELSE loc' = [loc EXCEPT ![p].pc = "arc",
                                          ![p].i = loc[p].rd.b - 1]
               /\ UNCHANGED <<lock, arclog>>
          ELSE LET file == Get(loc[p].rd.files, j)
               IN /\ arclog' = IF \/ file.write_size = BYTES_INVALID
                                  \/ IsHistoryName(b.root \o file.path)
                                  \/ loc[p].check
                               THEN arclog
                               ELSE arclog \cup {file.path}
                  /\ loc' = [loc EXCEPT ![p].rd.j = j + 1]
                  /\ UNCHANGED lock
    /\ UNCHANGED <<env, pgdata, work, faults, sigs, reruns>>

\* lines 482-543 of restore_archive_logs, one iteration of its loop, and at
\* its end lines 233-239 of do_restore
RaFile(p) ==
    /\ loc[p].pc = "ra_files"
    /\ LET b == Get(loc[p].backups, loc[p].rd.b)
           j == loc[p].rd.j
       IN IF j >= Len(loc[p].rd.files)
          THEN /\ IF loc[p].check
                  THEN LET r == search_next_wal(StoredArclog(b), loc[p].needId,
                                         loc[p].needSeg, loc[p].timelines, <<>>)
                       IN loc' = [loc EXCEPT ![p].pc = "arc",
                                             ![p].i = loc[p].rd.b - 1,
                                             ![p].needId = r.needId,
                                             ![p].needSeg = r.needSeg,
                                             ![p].timelines = r.timelines,
                                             ![p].searches = Append(@,
                                                 SearchCall(StoredArclog(b),
                                                     loc[p].needId, loc[p].needSeg,
                                                     loc[p].timelines, r))]
                  ELSE loc' = [loc EXCEPT ![p].pc = "arc",
                                          ![p].i = loc[p].rd.b - 1]
               /\ UNCHANGED <<lock, arclog>>
          ELSE IF loc[p].interrupted
          THEN /\ Fatal(p, "ERROR_INTERRUPTED")
               /\ UNCHANGED arclog
          ELSE LET file == Get(loc[p].rd.files, j)
               IN /\ arclog' = IF \/ file.write_size = BYTES_INVALID
                                  \/ IsHistoryName(b.root \o file.path)
                                  \/ loc[p].check
                               THEN arclog
                               ELSE arclog \cup {file.path}
                  /\ loc' = [loc EXCEPT ![p].rd.j = j + 1]
                  /\ UNCHANGED lock
    /\ UNCHANGED <<env, pgdata, work, faults, sigs, reruns>>

\* lines 242-243 and restore_online_files: copy the saved online WAL back
RestoreOnlineFiles(p) ==
    /\ loc[p].pc = "online"
    /\ pgdata' = IF loc[p].check THEN pgdata
                 ELSE FsPutAll(pgdata, { <<3>> \o f : f \in work.xlog }, PLAIN)
    /\ loc' = [loc EXCEPT ![p].pc = "search"]
    /\ UNCHANGED <<env, lock, arclog, work, faults, sigs, reruns>>

\* lines 245-261: in check mode, search the archive, then the online WAL
SearchArchived(p) ==
    /\ loc[p].pc = "search"
    /\ IF loc[p].check
       THEN LET r1 == search_next_wal(arclog, loc[p].needId, loc[p].needSeg,
                                      loc[p].timelines, <<>>)
                r2 == search_next_wal(XlogFiles(pgdata), r1.needId, r1.needSeg,
                                      r1.timelines, <<>>)
            IN loc' = [loc EXCEPT ![p].pc = "conf",
                                  ![p].needId = r2.needId,
                                  ![p].needSeg = r2.needSeg,
                                  ![p].timelines = r2.timelines,
                                  ![p].searches = @ \o
                                      << SearchCall(arclog, loc[p].needId,
                                             loc[p].needSeg, loc[p].timelines, r1),
                                         SearchCall(XlogFiles(pgdata), r1.needId,
                                             r1.needSeg, r1.timelines, r2) >>]
       ELSE loc' = [loc EXCEPT ![p].pc = "conf"]
    /\ UNCHANGED <<env, lock, pgdata, arclog, work, faults, sigs, reruns>>

\* lines 263-264 and create_recovery_conf
CreateRecoveryConf(p) ==
    /\ loc[p].pc = "conf"
    /\ pgdata' = IF loc[p].check THEN pgdata
                 ELSE FsPut(pgdata, P_CONF, loc[p].target_tli)
    /\ loc' = [loc EXCEPT ![p].pc = "unlock"]
    /\ UNCHANGED <<env, lock, arclog, work, faults, sigs, reruns>>

\* lines 266-282: release catalog lock, return 0
CatalogUnlock(p) ==
    /\ loc[p].pc = "unlock"
    /\ lock' = NoProc
    /\ loc' = [loc EXCEPT ![p].pc = "done"]
    /\ UNCHANGED <<env, pgdata, arclog, work, faults, sigs, reruns>>

(* --------------------------- surroundings ----------------------------- *)
\* the steps whose system calls can fail with ERROR_SYSTEM
FaultPcs == {"snap_xlog", "snap_srvlog", "clear", "history", "rd_mkdirs",
             "rd_files", "rd_reconcile", "rd_pid", "ra_files", "online", "conf"}

\* a system call of the current step fails: elog(ERROR_SYSTEM, ...)
IOError(p) ==
    /\ loc[p].pc \in FaultPcs
    /\ faults > 0
    /\ faults' = faults - 1
    /\ Fatal(p, "ERROR_SYSTEM")
    /\ UNCHANGED <<env, pgdata, arclog, work, sigs, reruns>>

\* the operator interrupts the process: the signal handler sets interrupted
Interrupt(p) ==
    /\ loc[p].pc \notin {"off", "exited", "done"}
    /\ ~loc[p].interrupted
    /\ sigs > 0
    /\ sigs' = sigs - 1
    /\ loc' = [loc EXCEPT ![p].interrupted = TRUE]
    /\ UNCHANGED <<env, lock, pgdata, arclog, work, faults, reruns>>

\* the operator runs the same restore command again after it ended
Rerun(p) ==
    /\ loc[p].pc \in {"exited", "done"}
    /\ reruns > 0
    /\ reruns' = reruns - 1
    /\ loc' = [loc EXCEPT ![p] = [NewRun(loc[p].check, loc[p].args,
                                         loc[p].target_tli0, pgdata,
                                         arclog, work)
                                  EXCEPT !.run = loc[p].run + 1,
                                         !.xlog_first = loc[p].xlog_first]]
    /\ UNCHANGED <<env, lock, pgdata, arclog, work, faults, sigs>>

Step(p) ==
    \/ CheckArgs(p) \/ CatalogLock(p) \/ CheckPgRunning(p) \/ GetBackupList(p)
    \/ BackupOnlineFiles(p) \/ SnapshotXlog(p) \/ SnapshotSrvlog(p)
    \/ ClearDestination(p) \/ RestoreHistory(p) \/ FindBaseBackup(p)
    \/ RdStart(p) \/ RdMkdirs(p) \/ RdFile(p) \/ RdReconcile(p) \/ RdRemovePid(p)
    \/ IncrementalStep(p) \/ ArchiveInit(p) \/ ArchiveStep(p) \/ RaFile(p)
    \/ RestoreOnlineFiles(p) \/ SearchArchived(p) \/ CreateRecoveryConf(p)
    \/ CatalogUnlock(p)
    \/ IOError(p) \/ Interrupt(p) \/ Rerun(p)

Next == \E p \in Procs : Step(p)

\* a run of do_restore that nothing disturbs
Run(p) ==
    \/ CheckArgs(p) \/ CatalogLock(p) \/ CheckPgRunning(p) \/ GetBackupList(p)
    \/ BackupOnlineFiles(p) \/ SnapshotXlog(p) \/ SnapshotSrvlog(p)
    \/ ClearDestination(p) \/ RestoreHistory(p) \/ FindBaseBackup(p)
    \/ RdStart(p) \/ RdMkdirs(p) \/ RdFile(p) \/ RdReconcile(p) \/ RdRemovePid(p)
    \/ IncrementalStep(p) \/ ArchiveInit(p) \/ ArchiveStep(p) \/ RaFile(p)
    \/ RestoreOnlineFiles(p) \/ SearchArchived(p) \/ CreateRecoveryConf(p)
    \/ CatalogUnlock(p)

NextRun == \E p \in Procs : Run(p)

\* runs in which restore_database may be applied a second time
NextTwice == \E p \in Procs : Run(p) \/ RestoreDatabaseAgain(p)


(* ------------------------------ Init ---------------------------------- *)
\* a manifest entry (pgFile)
File(path, isdir, write_size) ==
    [path |-> path, isdir |-> isdir, write_size |-> write_size]

\* the directory of a backup's archived WAL (base_path of line 479), as the
\* pieces of its name: one without the characters ".history" and one with
PlainRoot == <<0>>
HistoryRoot == <<0, HIST, 0>>

\* a catalog entry (pgBackup); id stands for start_time
Backup(id, mode, status, tli, stop, compress, files, arc_files) ==
    [id |-> id, backup_mode |-> mode, status |-> status, tli |-> tli,
     start_lsn |-> <<0, 0>>, stop_lsn |-> stop,
     block_size |-> BLCKSZ, wal_block_size |-> XLOG_BLCKSZ,
     compress_data |-> compress,
     have_database |-> mode >= BACKUP_MODE_INCREMENTAL,
     have_arclog |-> TRUE,
     files |-> files, arc_files |-> arc_files, root |-> PlainRoot]

\* the history file of timeline t: its ancestors 1 .. t-1, timeline k
\* ending at <<0, 25 * k>>
RECURSIVE GoodHistory(_)
GoodHistory(t) ==
    IF t <= 1 THEN <<>>
    ELSE Append(GoodHistory(t - 1), HistLine("ok", t - 1, <<0, 25 * (t - 1)>>))

NoArgsMissing == [pgdata |-> TRUE, arclog_path |-> TRUE, srvlog_path |-> TRUE]
NoFiles == [x \in {} |-> 0]
NoWork == [xlog |-> {}, srvlog |-> {}]
NotStarted == [NewRun(FALSE, NoArgsMissing, 0, NoFiles, {}, NoWork) EXCEPT !.pc = "off"]

\* catalogs (newest first) of n backups whose k-th entry has shape f[k]
Catalogs(n, Shapes) ==
    { [k \in 1 .. n |->
          Backup(n - k + 1, f[k][1], f[k][2], f[k][3], f[k][4], f[k][5],
                 <<File(P_BASE_1, FALSE, 8)>>, <<>>)]
      : f \in [1 .. n -> Shapes] }

\* a target timeline MaxTLI admits timeline 1 up to <<0, 25>>: a backup
\* stopped at Lo satisfies it there, one stopped at Hi does not
Lo == <<0, 10>>
Hi == <<0, 30>>

\* backups that differ in mode, status and stop point
ModeShapes ==
    { <<m, s, 1, stop, FALSE>> :
        m \in {BACKUP_MODE_ARCHIVE, BACKUP_MODE_INCREMENTAL, BACKUP_MODE_FULL},
        s \in {"OK", "ERROR"}, stop \in {Lo, Hi} }

\* usable database backups that differ in timeline and stop point
TimelineShapes ==
    { <<m, "OK", tl[1], tl[2], FALSE>> :
        m \in {BACKUP_MODE_INCREMENTAL, BACKUP_MODE_FULL},
        tl \in {<<1, Lo>>, <<1, Hi>>, <<MaxTLI, Lo>>} }

\* database backups, validated or not yet, compressed or not
ValidationShapes ==
    { <<m, s, 1, stop, z>> :
        m \in {BACKUP_MODE_INCREMENTAL, BACKUP_MODE_FULL},
        s \in {"OK", "DONE"}, stop \in {Lo, Hi}, z \in BOOLEAN }

\* the surroundings of a run that meets no trouble outside the catalog
QuietEnv(c, libz) ==
    [have_libz |-> libz, pg_running |-> FALSE, catalog |-> c,
     history |-> [t \in TLIs |-> GoodHistory(t)],
     tlhist |-> TLIs, srvlog |-> {}]

OneProcess(check, args, tgt, pg, wk) ==
    [p \in Procs |-> IF p = 1 THEN NewRun(check, args, tgt, pg, {}, wk)
                               ELSE NotStarted]

\* one process restores from a catalog of any shape onto an empty PGDATA
InitSelection ==
    /\ \/ \E n \in 0 .. MaxBackups : \E c \in Catalogs(n, ModeShapes) :
            /\ env = QuietEnv(c, TRUE)
            /\ loc = OneProcess(FALSE, NoArgsMissing, MaxTLI, NoFiles, NoWork)
       \/ \E n \in 0 .. MaxBackups : \E c \in Catalogs(n, TimelineShapes) :
          \E tgt \in {0, MaxTLI}, check \in BOOLEAN :
            /\ env = QuietEnv(c, TRUE)
            /\ loc = OneProcess(check, NoArgsMissing, tgt, NoFiles, NoWork)
       \/ \E n \in 0 .. MaxBackups - 1 : \E c \in Catalogs(n, ValidationShapes) :
          \E libz \in BOOLEAN :
            /\ env = QuietEnv(c, libz)
            /\ loc = OneProcess(FALSE, NoArgsMissing, MaxTLI, NoFiles, NoWork)
    /\ lock = NoProc
    /\ pgdata = NoFiles
    /\ arclog = {}
    /\ work = NoWork
    /\ faults = 0 /\ sigs = 0 /\ reruns = 0

(* the file-system scenario: a full backup and a newer incremental of a     *)
(* cluster on timeline 1, restored onto a data directory that may be live   *)
FullManifest ==
    <<File(P_BASE, TRUE, BYTES_INVALID), File(P_BASE_1, FALSE, 8),
      File(P_BASE_2, FALSE, 8), File(P_GLOBAL, TRUE, BYTES_INVALID),
      File(P_CONTROL, FALSE, 8)>>
IncrManifest ==
    <<File(P_BASE, TRUE, BYTES_INVALID), File(P_BASE_1, FALSE, 8),
      File(P_GLOBAL, TRUE, BYTES_INVALID), File(P_CONTROL, FALSE, BYTES_INVALID)>>

FilesCatalog(incr_block_size) ==
    << [Backup(2, BACKUP_MODE_INCREMENTAL, "OK", 1, Lo, FALSE, IncrManifest,
               <<File(<<1, 0, 1>>, FALSE, 8)>>)
          EXCEPT !.block_size = incr_block_size],
       Backup(1, BACKUP_MODE_FULL, "OK", 1, Lo, FALSE, FullManifest,
              <<File(<<1, 0, 0>>, FALSE, 8), File(<<1, HIST>>, FALSE, 8)>>) >>

\* content of a file the running cluster wrote
LIVE == 9

\* a data directory of a stopped cluster on timeline 1 with two online WAL
\* segments; a crashed one keeps its postmaster.pid
LivePgdata(crashed) ==
    LET tree == (P_BASE :> PLAIN) @@ (P_BASE_1 :> LIVE) @@ (<<1, 3>> :> LIVE)
                @@ (P_GLOBAL :> PLAIN) @@ (P_CONTROL :> 1) @@ (P_XLOG :> PLAIN)
                @@ (<<3, 1, 0, 2>> :> PLAIN) @@ (<<3, 1, 0, 3>> :> PLAIN)
    IN IF crashed THEN tree @@ (P_PID :> PLAIN) ELSE tree

ArgsChoices ==
    { NoArgsMissing, [NoArgsMissing EXCEPT !.pgdata = FALSE],
      [NoArgsMissing EXCEPT !.arclog_path = FALSE],
      [NoArgsMissing EXCEPT !.srvlog_path = FALSE] }

\* a history file of timeline 1 that names timeline 1 as its own ancestor
BadHistory == <<HistLine("ok", 1, <<0, 20>>)>>

InitFiles ==
    /\ \E bs \in {BLCKSZ, BLCKSZ \div 2}, running \in BOOLEAN, bad \in BOOLEAN :
          env = [have_libz |-> TRUE, pg_running |-> running,
                 catalog |-> FilesCatalog(bs),
                 history |-> [t \in TLIs |-> IF bad /\ t = 1 THEN BadHistory
                                             ELSE GoodHistory(t)],
                 tlhist |-> TLIs, srvlog |-> {<<1>>}]
    /\ lock = NoProc
    /\ \E crashed \in BOOLEAN : pgdata = LivePgdata(crashed)
    /\ arclog = {}
    /\ \E stale \in SUBSET {<<1, 0, 1>>} : work = [xlog |-> stale, srvlog |-> {}]
    /\ \E check \in BOOLEAN, args \in ArgsChoices :
          loc = OneProcess(check, args, 0, pgdata, work)
    /\ faults \in 0 .. MaxFaults
    /\ sigs \in 0 .. MaxSignals
    /\ reruns \in 0 .. MaxReruns

\* two restore processes started on the same catalog
InitLock ==
    /\ env = [have_libz |-> TRUE, pg_running |-> FALSE,
              catalog |-> FilesCatalog(BLCKSZ),
              history |-> [t \in TLIs |-> GoodHistory(t)],
              tlhist |-> TLIs, srvlog |-> {<<1>>}]
    /\ lock \in {NoProc, OtherPgRman}
    /\ pgdata = LivePgdata(FALSE)
    /\ arclog = {}
    /\ work = NoWork
    /\ \E c1 \in BOOLEAN, c2 \in BOOLEAN :
          loc = [p \in Procs |-> NewRun(IF p = 1 THEN c1 ELSE c2,
                                        NoArgsMissing, 0, pgdata, {}, NoWork)]
    /\ faults \in 0 .. MaxFaults
    /\ sigs = 0
    /\ reruns = 0

\* the catalog [FULL stop 10, INCREMENTAL stop 20, FULL stop 5], all OK on
\* timeline 1, newest first
ExampleCatalog ==
    << Backup(3, BACKUP_MODE_FULL, "OK", 1, <<0, 10>>, FALSE,
              <<File(P_BASE_1, FALSE, 8)>>, <<>>),
       Backup(2, BACKUP_MODE_INCREMENTAL, "OK", 1, <<0, 20>>, FALSE,
              <<File(P_BASE_1, FALSE, 8)>>, <<>>),
       Backup(1, BACKUP_MODE_FULL, "OK", 1, <<0, 5>>, FALSE,
              <<File(P_BASE_1, FALSE, 8)>>, <<>>) >>

\* the example catalog restored to timeline 2, which admits timeline 1 up
\* to <<0, 25>>
InitExample ==
    /\ env = [QuietEnv(ExampleCatalog, TRUE)
              EXCEPT !.history = [t \in TLIs |-> IF t = 2 THEN GoodHistory(2)
                                                 ELSE <<>>]]
    /\ lock = NoProc
    /\ pgdata = NoFiles
    /\ arclog = {}
    /\ work = NoWork
    /\ \E check \in BOOLEAN :
          loc = OneProcess(check, NoArgsMissing, 2, NoFiles, NoWork)
    /\ faults = 0 /\ sigs = 0 /\ reruns = 0

\* a catalog whose only full backup was taken by a server compiled with
\* another block size or another WAL block size
InitIncompatible ==
    /\ \E bs \in {BLCKSZ, BLCKSZ \div 2}, wbs \in {XLOG_BLCKSZ, 2 * XLOG_BLCKSZ} :
          /\ bs # BLCKSZ \/ wbs # XLOG_BLCKSZ
          /\ env = QuietEnv(<< [Backup(1, BACKUP_MODE_FULL, "OK", 1, Lo, FALSE,
                                       FullManifest, <<>>)
                                  EXCEPT !.block_size = bs,
                                         !.wal_block_size = wbs] >>, TRUE)
    /\ lock = NoProc
    /\ pgdata = LivePgdata(FALSE)
    /\ arclog = {}
    /\ work = NoWork
    /\ \E check \in BOOLEAN :
          loc = OneProcess(check, NoArgsMissing, 0, pgdata, NoWork)
    /\ faults = 0 /\ sigs = 0 /\ reruns = 0

(* the continuity scenario: a dry run whose base backup starts at a drawn   *)
(* LSN, with a drawn run of WAL segments in the backup's archive directory   *)
(* and in ARCLOG_PATH                                                        *)
\* the k-th segment after seed = <<xlogid, seg>>
RECURSIVE NthSeg(_, _)
NthSeg(seed, k) ==
    IF k = 0 THEN seed
    ELSE LET s == NthSeg(seed, k - 1) IN NextLogSeg(s[1], s[2])

\* XLByteToSeg of an LSN
SegOf(lsn) == <<lsn[1], lsn[2] \div XLogSegSize>>

\* the segment files on disk: the k-th segment from the start LSN is on
\* timeline owner[k] (0: on none); the first split of them are stored in
\* the backup, the others lie in ARCLOG_PATH
WalName(owner, start, k) ==
    XLogFileName(owner[k], NthSeg(SegOf(start), k - 1)[1],
                 NthSeg(SegOf(start), k - 1)[2])
WalInBackup(owner, start, split) ==
    [k \in 1 .. MaxSegs |->
        File(WalName(owner, start, k), FALSE,
             IF owner[k] # 0 /\ k <= split THEN 8 ELSE BYTES_INVALID)]
WalInArchive(owner, start, split) ==
    { WalName(owner, start, k) :
        k \in { n \in 1 .. MaxSegs : owner[n] # 0 /\ n > split } }

\* start LSNs, each with a split: the first segment of a log file, or the
\* last segment of a log file, inside the segment
WalStarts ==
    { <<<<0, 0>>, 2>>, <<<<0, 0>>, MaxSegs>>,
      <<<<0, XLogSegSize * (XLogSegsPerFile - 1) + 3>>, MaxSegs>> }

InitWal ==
    /\ \E owner \in [1 .. MaxSegs -> 0 .. MaxWalTLI], ss \in WalStarts :
          /\ env = [have_libz |-> TRUE, pg_running |-> FALSE,
                    catalog |-> << [Backup(1, BACKUP_MODE_FULL, "OK", 1, Lo, FALSE,
                                           <<File(P_BASE_1, FALSE, 8)>>,
                                           WalInBackup(owner, ss[1], ss[2]))
                                      EXCEPT !.start_lsn = ss[1]] >>,
                    history |-> [t \in 1 .. MaxWalTLI |-> GoodHistory(t)],
                    tlhist |-> 1 .. MaxWalTLI, srvlog |-> {}]
          /\ arclog = WalInArchive(owner, ss[1], ss[2])
    /\ lock = NoProc
    /\ pgdata = NoFiles
    /\ work = NoWork
    /\ \E tgt \in 1 .. MaxWalTLI :
          loc = [p \in Procs |-> IF p = 1
                    THEN NewRun(TRUE, NoArgsMissing, tgt, pgdata, arclog, work)
                    ELSE NotStarted]
    /\ faults = 0 /\ sigs = 0 /\ reruns = 0

(* the history scenario: a restore to a drawn target timeline whose history *)
(* file, when there is one, holds drawn lines                                *)
\* the lines a history file may hold
HistShapes ==
    {HistLine("skip", 0, <<0, 0>>), HistLine("noid", 0, <<0, 0>>),
     HistLine("noend", 1, <<0, 0>>), HistLine("badend", 1, <<0, 0>>)}
    \cup { HistLine("ok", t, e) : t \in 1 .. MaxHistTLI, e \in {<<0, 25>>, <<1, 0>>} }

HistFiles == UNION { [1 .. n -> HistShapes] : n \in 0 .. MaxLines }

InitHistory ==
    /\ \E tgt \in 1 .. MaxHistTLI :
          /\ \/ \E lines \in HistFiles :
                   env = [have_libz |-> TRUE, pg_running |-> FALSE,
                          catalog |-> << Backup(1, BACKUP_MODE_FULL, "OK", 1, Lo, FALSE,
                                                <<File(P_BASE_1, FALSE, 8)>>, <<>>) >>,
                          history |-> [t \in 1 .. MaxHistTLI |-> lines],
                          tlhist |-> {tgt}, srvlog |-> {}]
             \/ env = [have_libz |-> TRUE, pg_running |-> FALSE,
                       catalog |-> << Backup(1, BACKUP_MODE_FULL, "OK", 1, Lo, FALSE,
                                             <<File(P_BASE_1, FALSE, 8)>>, <<>>) >>,
                       history |-> [t \in 1 .. MaxHistTLI |-> <<>>],
                       tlhist |-> {}, srvlog |-> {}]
          /\ loc = [p \in Procs |-> IF p = 1
                       THEN NewRun(FALSE, NoArgsMissing, tgt, NoFiles, {}, NoWork)
                       ELSE NotStarted]
    /\ lock = NoProc
    /\ pgdata = NoFiles
    /\ arclog = {}
    /\ work = NoWork
    /\ faults = 0 /\ sigs = 0 /\ reruns = 0

(* the repeated-restore scenario: a full backup of three relation files and  *)
(* a newer incremental that captured, left unchanged or no longer had each  *)
\* a third relation file
P_BASE_3 == <<1, 3>>

\* what a manifest can say of a relation file: captured, unchanged, dropped
Captures == {"captured", "unchanged", "dropped"}

\* the manifest entries for a relation file
FileEntry(path, c) ==
    IF c = "dropped" THEN <<>>
    ELSE <<File(path, FALSE, IF c = "captured" THEN 8 ELSE BYTES_INVALID)>>

TwiceCatalog(c) ==
    << Backup(2, BACKUP_MODE_INCREMENTAL, "OK", 1, Lo, FALSE,
              <<File(P_BASE, TRUE, BYTES_INVALID)>> \o FileEntry(P_BASE_1, c[1])
                 \o FileEntry(P_BASE_2, c[2]) \o FileEntry(P_BASE_3, c[3])
                 \o <<File(P_GLOBAL, TRUE, BYTES_INVALID), File(P_CONTROL, FALSE, 8)>>,
              <<File(<<1, 0, 1>>, FALSE, 8)>>),
       Backup(1, BACKUP_MODE_FULL, "OK", 1, Lo, FALSE,
              <<File(P_BASE, TRUE, BYTES_INVALID)>> \o FileEntry(P_BASE_1, "captured")
                 \o FileEntry(P_BASE_2, "captured") \o FileEntry(P_BASE_3, "captured")
                 \o <<File(P_GLOBAL, TRUE, BYTES_INVALID), File(P_CONTROL, FALSE, 8)>>,
              <<File(<<1, 0, 0>>, FALSE, 8)>>) >>

InitTwice ==
    /\ \E c \in [1 .. 3 -> Captures] : env = QuietEnv(TwiceCatalog(c), TRUE)
    /\ lock = NoProc
    /\ \E crashed \in BOOLEAN : pgdata = LivePgdata(crashed)
    /\ arclog = {}
    /\ \E stale \in SUBSET {<<1, 0, 1>>} : work = [xlog |-> stale, srvlog |-> {}]
    /\ loc = OneProcess(FALSE, NoArgsMissing, 0, pgdata, work)
    /\ faults = 0 /\ sigs = 0 /\ reruns = 0

(* the history-suffix scenario: a full backup whose WAL list holds a segment *)
(* and a file whose name ends in ".history"                                 *)
\* names ending in ".history": of timeline 1, of timeline 2, and one that
\* holds the characters twice
HistoryNames == {<<1, HIST>>, <<2, HIST>>, <<1, HIST, 0, HIST>>}

InitSuffix ==
    /\ \E name \in HistoryNames, root \in {PlainRoot, HistoryRoot},
          size \in {8, BYTES_INVALID}, compress \in BOOLEAN :
          env = [have_libz |-> TRUE, pg_running |-> FALSE,
                 catalog |-> << [Backup(1, BACKUP_MODE_FULL, "OK", 1, Lo, compress,
                                        <<File(P_BASE_1, FALSE, 8)>>,
                                        <<File(<<1, 0, 0>>, FALSE, 8),
                                          File(name, FALSE, size)>>)
                                   EXCEPT !.root = root] >>,
                 history |-> [t \in TLIs |-> GoodHistory(t)],
                 tlhist |-> {}, srvlog |-> {}]
    /\ lock = NoProc
    /\ pgdata = NoFiles
    /\ arclog = {}
    /\ work = NoWork
    /\ \E check \in BOOLEAN : loc = OneProcess(check, NoArgsMissing, 1, pgdata, work)
    /\ faults = 0 /\ sigs = 0 /\ reruns = 0

(* the chain scenario: a full backup of three relation files and two newer  *)
(* incrementals, each of which captured, left unchanged or no longer had    *)
(* each file; a file the older incremental no longer had is new or absent   *)
(* in the newer one                                                         *)
ChainManifest(c) ==
    <<File(P_BASE, TRUE, BYTES_INVALID)>> \o FileEntry(P_BASE_1, c[1])
       \o FileEntry(P_BASE_2, c[2]) \o FileEntry(P_BASE_3, c[3])
       \o <<File(P_GLOBAL, TRUE, BYTES_INVALID), File(P_CONTROL, FALSE, 8)>>

ChainCatalog(c, d) ==
    << Backup(3, BACKUP_MODE_INCREMENTAL, "OK", 1, Lo, FALSE, ChainManifest(d),
              <<File(<<1, 0, 2>>, FALSE, 8)>>),
       Backup(2, BACKUP_MODE_INCREMENTAL, "OK", 1, Lo, FALSE, ChainManifest(c),
              <<File(<<1, 0, 1>>, FALSE, 8)>>),
       Backup(1, BACKUP_MODE_FULL, "OK", 1, Lo, FALSE,
              ChainManifest([k \in 1 .. 3 |-> "captured"]),
              <<File(<<1, 0, 0>>, FALSE, 8)>>) >>

InitChain ==
    /\ \E c \in [1 .. 3 -> Captures], d \in [1 .. 3 -> Captures] :
          /\ \A k \in 1 .. 3 : c[k] = "dropped" => d[k] # "unchanged"
          /\ env = QuietEnv(ChainCatalog(c, d), TRUE)
    /\ lock = NoProc
    /\ pgdata = LivePgdata(FALSE)
    /\ arclog = {}
    /\ work = NoWork
    /\ \E check \in BOOLEAN : loc = OneProcess(check, NoArgsMissing, 0, pgdata, work)
    /\ faults = 0 /\ sigs = 0 /\ reruns = 0

(* the two-archive scenario: a full backup on timeline 1 and a newer backup, *)
(* each with one archived WAL segment named for a drawn timeline, restored  *)
(* as a dry run or not                                                      *)
\* the archived WAL list of a backup: segment seg of log file 0 named for
\* timeline owner, or nothing when owner is 0
OneSegment(owner, seg) ==
    IF owner = 0 THEN <<>> ELSE <<File(XLogFileName(owner, 0, seg), FALSE, 8)>>

InitDry ==
    /\ \E a \in 0 .. MaxTLI, b \in 0 .. MaxTLI, tli \in TLIs, stop \in {Lo, Hi},
          mode \in {BACKUP_MODE_ARCHIVE, BACKUP_MODE_INCREMENTAL} :
          env = QuietEnv(<< Backup(2, mode, "OK", tli, stop, FALSE,
                                   <<File(P_BASE_1, FALSE, 8)>>, OneSegment(b, 1)),
                            Backup(1, BACKUP_MODE_FULL, "OK", 1, Lo, FALSE,
                                   <<File(P_BASE_1, FALSE, 8)>>, OneSegment(a, 0)) >>,
                         TRUE)
    /\ lock = NoProc
    /\ pgdata = NoFiles
    /\ arclog = {}
    /\ work = NoWork
    /\ \E check \in BOOLEAN, tgt \in TLIs :
          loc = OneProcess(check, NoArgsMissing, tgt, pgdata, work)
    /\ faults = 0 /\ sigs = 0 /\ reruns = 0

Init == InitSelection \/ InitExample \/ InitFiles \/ InitLock \/ InitIncompatible
        \/ InitSuffix


Spec == Init /\ [][Next]_vars

\* restores over the history scenario
SpecHistory == InitHistory /\ [][NextRun]_vars

\* restores and dry runs over the two-archive scenario
SpecDry == InitDry /\ [][NextRun]_vars

\* restores over the chain scenario
SpecChain == InitChain /\ [][NextRun]_vars

\* restores over the repeated-restore scenario
SpecTwice == InitTwice /\ [][NextTwice]_vars

\* dry runs over the continuity scenario
SpecWal == InitWal /\ [][NextRun]_vars


(* ============================== claims ================================ *)
\* a timeline chain admits a backup: some entry has the backup's timeline
\* and an end boundary strictly above the backup's stop point
Admits(chain, b) ==
    \E n \in 1 .. Len(chain) :
        /\ chain[n].tli = b.tli
        /\ \/ b.stop_lsn[1] < chain[n].end[1]
           \/ b.stop_lsn[1] = chain[n].end[1] /\ b.stop_lsn[2] < chain[n].end[2]

\* the three tests of the base backup
PassesBase(chain, b) ==
    b.backup_mode = BACKUP_MODE_FULL /\ b.status = "OK" /\ Admits(chain, b)

\* a full, OK backup that needs a decompression the build may lack
NeedsZlib(b) ==
    /\ b.backup_mode = BACKUP_MODE_FULL /\ b.status = "OK"
    /\ b.compress_data /\ (b.have_database \/ b.have_arclog)

\* the scan has just found a base: nothing has touched the catalog since
JustFoundBase(p) == loc[p].pc = "rd_start" /\ Len(loc[p].db_calls) = 1

\* the scan ended the run
ScanFailed(p) == loc[p].pc = "exited" /\ loc[p].at = "find_base"

\* PGDATA holds nothing but what the run found there
NothingRestored(p) ==
    \A x \in DOMAIN pgdata : x \in DOMAIN loc[p].pgdata0 /\ pgdata[x] = loc[p].pgdata0[x]

\* C1 as claimed: the base is the first (newest) backup that is FULL, OK and
\* admitted by the timeline chain, every newer backup fails one of the three
\* tests, and the scan ends the run only when no backup passes, with
\* ERROR_NO_BACKUP and nothing restored.
C1_AsClaimed ==
    \A p \in Procs :
        LET bs == loc[p].backups
            chain == loc[p].timelines
        IN /\ JustFoundBase(p) =>
                /\ PassesBase(chain, Get(bs, loc[p].base_index))
                /\ \A k \in 0 .. loc[p].base_index - 1 : ~PassesBase(chain, Get(bs, k))
           /\ ScanFailed(p) =>
                /\ \A k \in 0 .. Len(bs) - 1 : ~PassesBase(chain, Get(bs, k))
                /\ loc[p].code = "ERROR_NO_BACKUP"
                /\ loc[p].db_calls = <<>>
                /\ NothingRestored(p)

\* C1 amended: as claimed in a build with zlib; in a build without zlib the
\* scan ends the run with EXIT_NOT_SUPPORTED at the first full, OK backup
\* that is compressed and carries database or archive payload, before it
\* tests that backup's timeline, so a base is taken only if no such backup
\* is at or before it.  Nothing is restored when the scan ends the run.
C1_BaseIsFirstUsable ==
    \A p \in Procs :
        LET bs == loc[p].backups
            chain == loc[p].timelines
            blocked(k) == ~env.have_libz /\ NeedsZlib(Get(bs, k))
        IN /\ JustFoundBase(p) =>
                /\ PassesBase(chain, Get(bs, loc[p].base_index))
                /\ \A k \in 0 .. loc[p].base_index - 1 : ~PassesBase(chain, Get(bs, k))
                /\ \A k \in 0 .. loc[p].base_index : ~blocked(k)
           /\ ScanFailed(p) =>
                /\ loc[p].db_calls = <<>>
                /\ NothingRestored(p)
                /\ \/ /\ loc[p].code = "ERROR_NO_BACKUP"
                      /\ \A k \in 0 .. Len(bs) - 1 :
                            ~PassesBase(chain, Get(bs, k)) /\ ~blocked(k)
                   \/ /\ loc[p].code = "EXIT_NOT_SUPPORTED"
                      /\ \E k \in 0 .. Len(bs) - 1 :
                            /\ blocked(k)
                            /\ \A j \in 0 .. k - 1 :
                                  ~PassesBase(chain, Get(bs, j)) /\ ~blocked(j)

\* C1 witness: the base is found at index 2, after a newer full, OK backup
\* that the timeline chain does not admit and a newer incremental
C1_Witness ==
    \E p \in Procs :
        /\ JustFoundBase(p)
        /\ loc[p].base_index = 2
        /\ Get(loc[p].backups, 0).backup_mode = BACKUP_MODE_FULL
        /\ Get(loc[p].backups, 0).status = "OK"
        /\ Get(loc[p].backups, 1).backup_mode = BACKUP_MODE_INCREMENTAL


\* the steps of restore_database
RdPcs == {"rd_start", "rd_mkdirs", "rd_files", "rd_reconcile", "rd_pid"}

\* the database backups have all been chosen and restored
WalkOver(p) ==
    loc[p].pc \in {"arc_init", "arc", "ra_files", "online", "search", "conf",
                   "unlock", "done"}

\* the indices of the calls of restore_database, in call order
CallIndex(p, k) == loc[p].db_calls[k].index

\* C2 as claimed: from the catalog [FULL stop 10, INCREMENTAL stop 20,
\* FULL stop 5] (newest first, all OK on timeline 1) and a chain that admits
\* timeline 1 up to 25, the restore takes the FULL with stop 10 as base and
\* also restores the INCREMENTAL with stop 20.
C2_AsClaimed ==
    \A p \in Procs :
        (env.catalog = ExampleCatalog /\ WalkOver(p)) =>
            /\ loc[p].db_calls[1].backup.stop_lsn = <<0, 10>>
            /\ \E k \in 1 .. Len(loc[p].db_calls) :
                  /\ loc[p].db_calls[k].backup.backup_mode = BACKUP_MODE_INCREMENTAL
                  /\ loc[p].db_calls[k].backup.stop_lsn = <<0, 20>>

\* C2 amended: from that catalog and chain the restore takes the FULL with
\* stop 10 (index 0) as base and restores no other backup: the INCREMENTAL
\* with stop 20 is at index 1, older than the base, and the walk from the
\* base toward index 0 never visits it.
C2_OnlyTheBase ==
    \A p \in Procs :
        (env.catalog = ExampleCatalog /\ WalkOver(p)) =>
            /\ Len(loc[p].db_calls) = 1
            /\ CallIndex(p, 1) = 0
            /\ loc[p].db_calls[1].backup.backup_mode = BACKUP_MODE_FULL
            /\ loc[p].db_calls[1].backup.stop_lsn = <<0, 10>>
            /\ loc[p].last_restored_index = 0

\* C2 witness: the restore of the example catalog has completed, under a
\* chain that admits timeline 1 up to <<0, 25>>
C2_Witness ==
    \E p \in Procs :
        /\ env.catalog = ExampleCatalog
        /\ loc[p].pc = "done"
        /\ ~loc[p].check
        /\ \E n \in 1 .. Len(loc[p].timelines) :
              loc[p].timelines[n] = TimeLine(1, <<0, 25>>)
        /\ pgdata[P_BASE_1] = 3

\* the test of the walk, on the backup as the walk met it
WalkTakes(p, b) ==
    /\ b.status = "OK"
    /\ b.backup_mode >= BACKUP_MODE_INCREMENTAL
    /\ b.tli = loc[p].db_calls[1].backup.tli
    /\ Admits(loc[p].timelines, b)

\* the indices the walk has decided so far
Decided(p) ==
    IF loc[p].pc = "incr" THEN loc[p].i + 1 .. loc[p].base_index - 1
    ELSE IF loc[p].pc \in RdPcs THEN loc[p].rd.b .. loc[p].base_index - 1
    ELSE 0 .. loc[p].base_index - 1

\* C3: after the base is found at index b the walk visits b-1 down to 0 and
\* restores exactly the backups that are OK, INCREMENTAL or above, on the
\* base's timeline and admitted by the chain; the others are skipped without
\* error; the calls go to strictly smaller indices (oldest to newest), and
\* last_restored_index is the smallest index restored.
C3_WalkRestoresExactly ==
    \A p \in Procs :
        /\ ~(loc[p].pc = "exited" /\ loc[p].at = "incr")
        /\ (loc[p].pc \in RdPcs \cup {"incr", "arc_init"}) =>
             LET calls == loc[p].db_calls
                 later == { CallIndex(p, k) : k \in 2 .. Len(calls) }
                 met(n) == IF n \in later
                           THEN (CHOOSE c \in { calls[k] : k \in 2 .. Len(calls) } :
                                    c.index = n).backup
                           ELSE Get(loc[p].backups, n)
             IN /\ CallIndex(p, 1) = loc[p].base_index
                /\ \A k \in 1 .. Len(calls) - 1 : CallIndex(p, k + 1) < CallIndex(p, k)
                /\ later \subseteq Decided(p)
                /\ \A n \in Decided(p) : (n \in later) <=> WalkTakes(p, met(n))
                /\ (loc[p].pc \in {"incr", "arc_init"}) =>
                      /\ loc[p].last_restored_index = CallIndex(p, Len(calls))
                      /\ \A k \in 1 .. Len(calls) :
                            loc[p].last_restored_index <= CallIndex(p, k)

\* C3 witness: the walk from a base at index 2 is over; it skipped index 1
\* and restored index 0
C3_Witness ==
    \E p \in Procs :
        /\ loc[p].pc = "arc_init"
        /\ loc[p].base_index = 2
        /\ Len(loc[p].db_calls) = 2
        /\ CallIndex(p, 2) = 0
        /\ loc[p].last_restored_index = 0

\* C4: no backup whose status is not OK is ever passed to restore_database
\* or to restore_archive_logs.
C4_OnlyOkBackups ==
    \A p \in Procs :
        /\ \A k \in 1 .. Len(loc[p].db_calls) : loc[p].db_calls[k].backup.status = "OK"
        /\ \A k \in 1 .. Len(loc[p].arc_calls) : loc[p].arc_calls[k].backup.status = "OK"

\* C4 witness: a run has completed that restored a database backup and
\* archived WAL from a catalog whose newest backup is not OK
C4_Witness ==
    \E p \in Procs :
        /\ loc[p].pc = "done"
        /\ Len(loc[p].db_calls) >= 1
        /\ Len(loc[p].arc_calls) >= 1
        /\ Get(loc[p].backups, 0).status # "OK"
        /\ Get(loc[p].backups, 0).backup_mode >= BACKUP_MODE_INCREMENTAL

\* C5: the backups passed to restore_database are one FULL backup, the
\* base, first, then only backups that are not FULL, and the timeline chain
\* admits every one of them.
C5_OneFullThenIncrementals ==
    \A p \in Procs :
        LET calls == loc[p].db_calls
        IN Len(calls) >= 1 =>
             /\ calls[1].backup.backup_mode = BACKUP_MODE_FULL
             /\ calls[1].index = loc[p].base_index
             /\ \A k \in 2 .. Len(calls) : calls[k].backup.backup_mode # BACKUP_MODE_FULL
             /\ (loc[p].pc \in RdPcs \cup {"incr", "arc_init"}) =>
                   \A k \in 1 .. Len(calls) : Admits(loc[p].timelines, calls[k].backup)

\* C5 witness: the walk from a base at index 2 is over; it passed a newer
\* full, OK backup at index 0 and restored the incremental at index 1
C5_Witness ==
    \E p \in Procs :
        /\ loc[p].pc = "arc_init"
        /\ loc[p].base_index = 2
        /\ Get(loc[p].backups, 0).backup_mode = BACKUP_MODE_FULL
        /\ Get(loc[p].backups, 0).status = "OK"
        /\ Len(loc[p].db_calls) = 2
        /\ CallIndex(p, 2) = 1

\* process p is the only pg_rman process that runs
Solo(p) == \A q \in Procs \ {p} : loc[q].pc = "off"

\* the steps of do_restore before it starts to clear the destination
BeforeClearPcs ==
    {"args", "lock", "pg_running", "get_list", "backup_online", "snap_xlog",
     "snap_srvlog"}

\* the destination holds a finished restore: every file of the base
\* backup's manifest and recovery.conf
Restored(p) ==
    /\ P_CONF \in DOMAIN pgdata
    /\ Len(loc[p].db_calls) >= 1
    /\ \A k \in 1 .. Len(loc[p].db_calls[1].backup.files) :
          loc[p].db_calls[1].backup.files[k].path \in DOMAIN pgdata

\* C6 as claimed: whenever a run ends in a fatal error the data directory
\* is either unchanged from its state before the run or fully restored,
\* never cleared or half restored.
C6_AsClaimed ==
    \A p \in Procs :
        (Solo(p) /\ loc[p].pc = "exited") =>
            (pgdata = loc[p].pgdata0 \/ Restored(p))

\* C6 amended: a run that ends in a fatal error before it starts to clear
\* the destination (missing parameter, lock not taken, server running, no
\* full backup in the catalog, failure while saving the online files)
\* leaves the data directory as it found it; a run that ends while it
\* resolves the timeline history or looks for the base backup leaves the
\* data directory unchanged in a dry run and emptied otherwise: nothing is
\* rolled back.
C6_UnchangedOnlyBeforeClearing ==
    \A p \in Procs :
        (Solo(p) /\ loc[p].pc = "exited") =>
            /\ loc[p].at \in BeforeClearPcs => pgdata = loc[p].pgdata0
            /\ loc[p].at \in {"history", "find_base"} =>
                  IF loc[p].check THEN pgdata = loc[p].pgdata0
                  ELSE DOMAIN pgdata = {}

\* C6 witness: a restore onto a data directory with files in it has ended
\* with ERROR_CORRUPTED on the timeline history, and the directory is empty
C6_Witness ==
    \E p \in Procs :
        /\ Solo(p)
        /\ loc[p].pc = "exited"
        /\ loc[p].code = "ERROR_CORRUPTED"
        /\ loc[p].at = "history"
        /\ ~loc[p].check
        /\ P_CONTROL \in DOMAIN loc[p].pgdata0
        /\ DOMAIN pgdata = {}

\* C7 as claimed: the destination is never cleared before the online WAL
\* that was in PGDATA/pg_xlog before the first run is in the restore work
\* area, and after the run that completes (a re-run after an aborted run
\* included) every one of those WAL files is in PGDATA/pg_xlog again.
C7_AsClaimed ==
    \A p \in Procs :
        /\ loc[p].cleared => loc[p].xlog_first \subseteq work.xlog
        /\ (loc[p].pc = "done" /\ ~loc[p].check) =>
              loc[p].xlog_first \subseteq XlogFiles(pgdata)

\* C8: a process that has ended with a fatal error does not hold the
\* catalog lock, at whatever step after catalog_lock the error was raised.
C8_LockReleasedOnFatal ==
    \A p \in Procs : loc[p].pc = "exited" => lock # p

\* C8 witness: a process that had taken the lock and begun to restore files
\* has ended with a fatal error, and the lock is free
C8_Witness ==
    \E p \in Procs :
        /\ loc[p].pc = "exited"
        /\ loc[p].at \in RdPcs \cup {"ra_files"}
        /\ loc[p].code \in {"ERROR_INTERRUPTED", "ERROR_SYSTEM", "ERROR_PG_INCOMPATIBLE"}
        /\ lock = NoProc

\* the steps between a successful catalog_lock and the end of catalog_unlock
LockedPcs ==
    {"pg_running", "get_list", "backup_online", "snap_xlog", "snap_srvlog",
     "clear", "history", "find_base", "incr", "arc_init", "arc", "ra_files",
     "online", "search", "conf", "unlock"} \cup RdPcs

\* C9: of two restore processes on one catalog at most one is between a
\* successful catalog_lock and catalog_unlock, and it holds the lock all the
\* way from before the snapshot of the online files until recovery.conf is
\* written; a process that calls catalog_lock while another pg_rman holds
\* the lock ends at that step with ERROR_ALREADY_RUNNING.
C9_OneRestoreAtATime ==
    /\ [](\A p \in Procs : loc[p].pc \in LockedPcs => lock = p)
    /\ [](\A p, q \in Procs :
             (loc[p].pc \in LockedPcs /\ loc[q].pc \in LockedPcs) => p = q)
    /\ [][\A p \in Procs :
             (/\ loc[p].pc = "lock"
              /\ lock \notin {NoProc, p}
              /\ loc'[p].pc # "lock") =>
                 /\ loc'[p].pc = "exited"
                 /\ loc'[p].code = "ERROR_ALREADY_RUNNING"
                 /\ lock' = lock]_vars

\* C9 witness: one process writes recovery.conf holding the lock while the
\* other has ended with ERROR_ALREADY_RUNNING
C9_Witness ==
    \E p, q \in Procs :
        /\ p # q
        /\ loc[p].pc = "conf"
        /\ lock = p
        /\ loc[q].pc = "exited"
        /\ loc[q].code = "ERROR_ALREADY_RUNNING"

\* PGDATA, ARCLOG_PATH and SRVLOG_PATH are all set
AllArgs(p) ==
    loc[p].args.pgdata /\ loc[p].args.arclog_path /\ loc[p].args.srvlog_path

\* C10: the data directory, the archive directory and the restore work
\* area change only under a process whose three parameters are set, which
\* holds the catalog lock and has seen the server stopped; a missing
\* parameter ends the run with ERROR_ARGS at the first step, before the lock
\* is taken, and a running server ends it with ERROR_PG_RUNNING with the
\* three locations as the run found them.
C10_NoChangeBeforeChecks ==
    /\ [][(pgdata' # pgdata \/ arclog' # arclog \/ work' # work) =>
             \E p \in Procs :
                /\ lock = p
                /\ AllArgs(p)
                /\ ~env.pg_running
                /\ loc[p].pc \in LockedPcs \ {"pg_running"}]_vars
    /\ [](\A p \in Procs :
             /\ (~AllArgs(p) /\ loc[p].pc # "off") =>
                   /\ loc[p].pc \in {"args", "exited"}
                   /\ loc[p].pc = "exited" =>
                         (loc[p].code = "ERROR_ARGS" /\ loc[p].at = "args")
                   /\ lock # p
             /\ (loc[p].pc = "exited" /\ loc[p].code = "ERROR_ARGS") =>
                   (~AllArgs(p) /\ loc[p].at = "args")
             /\ env.pg_running => loc[p].pc \notin LockedPcs \ {"pg_running"}
             /\ (loc[p].pc = "exited" /\ loc[p].code = "ERROR_PG_RUNNING") =>
                   /\ loc[p].at = "pg_running"
                   /\ Solo(p) => /\ pgdata = loc[p].pgdata0
                                 /\ arclog = loc[p].arclog0
                                 /\ work = loc[p].work0)

\* C10 witness: a restore onto the data directory of a running server has
\* ended with ERROR_PG_RUNNING and the directory is as it was
C10_Witness ==
    \E p \in Procs :
        /\ loc[p].pc = "exited"
        /\ loc[p].code = "ERROR_PG_RUNNING"
        /\ env.pg_running
        /\ P_CONTROL \in DOMAIN pgdata
        /\ pgdata = loc[p].pgdata0
        /\ lock = NoProc

\* the paths a backup's manifest lists
ManifestPaths(b) == { b.files[k].path : k \in 1 .. Len(b.files) }

\* the backup restore_database is working on
RdBackup(p) == Get(loc[p].backups, loc[p].rd.b)

\* C11: in a non-dry-run restore_database, once the reconciliation pass is
\* over every non-excluded path of the destination is listed in the
\* backup's manifest, every captured entry of the manifest is in place, the
\* pass has deleted no listed path, and no entry with write_size =
\* BYTES_INVALID has been copied.
C11_DestinationMirrorsManifest ==
    /\ [](\A p \in Procs :
             (loc[p].pc = "rd_pid" /\ ~loc[p].check) =>
                 /\ \A x \in DOMAIN pgdata :
                       ~Excluded(x) => x \in ManifestPaths(RdBackup(p))
                 /\ \A k \in 1 .. Len(RdBackup(p).files) :
                       LET f == RdBackup(p).files[k]
                       IN (f.isdir \/ f.write_size # BYTES_INVALID) =>
                             /\ f.path \in DOMAIN pgdata
                             /\ ~f.isdir =>
                                   pgdata[f.path] = FileContent(RdBackup(p), f.path))
    /\ [][\A p \in Procs :
             /\ (loc[p].pc = "rd_reconcile" /\ lock = p) =>
                   /\ DOMAIN pgdata' \subseteq DOMAIN pgdata
                   /\ \A x \in DOMAIN pgdata \ DOMAIN pgdata' :
                         x \notin ManifestPaths(RdBackup(p)) /\ ~Excluded(x)
                   /\ \A x \in DOMAIN pgdata' : pgdata'[x] = pgdata[x]
             /\ (loc[p].pc = "rd_files" /\ lock = p /\ pgdata' # pgdata) =>
                   \E k \in 1 .. Len(RdBackup(p).files) :
                      LET f == RdBackup(p).files[k]
                      IN /\ f.write_size # BYTES_INVALID
                         /\ ~f.isdir
                         /\ pgdata' = FsPut(pgdata, f.path,
                                            FileContent(RdBackup(p), f.path))]_vars

\* C11 witness: the reconciliation pass for the incremental backup is over:
\* base/2, restored from the full backup and absent from the incremental's
\* manifest, is gone, and global/pg_control, listed but not captured, stays
C11_Witness ==
    \E p \in Procs :
        /\ loc[p].pc = "rd_pid"
        /\ ~loc[p].check
        /\ Len(loc[p].db_calls) = 2
        /\ loc[p].rd.b = 0
        /\ P_BASE_2 \notin DOMAIN pgdata
        /\ P_CONTROL \in DOMAIN pgdata
        /\ pgdata[P_BASE_1] = RdBackup(p).id

\* the backup was taken with block sizes other than the restoring build's
Incompatible(b) == b.block_size # BLCKSZ \/ b.wal_block_size # XLOG_BLCKSZ

\* C12: a call of restore_database on a backup whose block_size is not
\* BLCKSZ or whose wal_block_size is not XLOG_BLCKSZ ends the run with
\* ERROR_PG_INCOMPATIBLE at its first step: the call copies no file into
\* the destination and deletes none from it.
C12_IncompatibleBackupRefused ==
    /\ [](\A p \in Procs :
             /\ loc[p].pc \in RdPcs \ {"rd_start"} => ~Incompatible(RdBackup(p))
             /\ \A k \in 1 .. Len(loc[p].db_calls) :
                   Incompatible(loc[p].db_calls[k].backup) =>
                       /\ k = Len(loc[p].db_calls)
                       /\ \/ loc[p].pc = "rd_start"
                          \/ /\ loc[p].pc = "exited"
                             /\ loc[p].code = "ERROR_PG_INCOMPATIBLE"
                             /\ loc[p].at = "rd_start")
    /\ [][\A p \in Procs :
             (/\ loc[p].pc = "rd_start"
              /\ Incompatible(RdBackup(p))
              /\ loc'[p] # loc[p]
              /\ loc'[p].interrupted = loc[p].interrupted) =>
                 /\ loc'[p].pc = "exited"
                 /\ loc'[p].code = "ERROR_PG_INCOMPATIBLE"
                 /\ pgdata' = pgdata
                 /\ arclog' = arclog
                 /\ work' = work]_vars

\* C12 witness: the run has ended with ERROR_PG_INCOMPATIBLE in the call of
\* restore_database on a base backup whose wal_block_size alone differs
C12_Witness ==
    \E p \in Procs :
        /\ loc[p].pc = "exited"
        /\ loc[p].code = "ERROR_PG_INCOMPATIBLE"
        /\ Len(loc[p].db_calls) = 1
        /\ loc[p].db_calls[1].backup.block_size = BLCKSZ
        /\ loc[p].db_calls[1].backup.wal_block_size # XLOG_BLCKSZ
        /\ ~loc[p].check
        /\ DOMAIN pgdata = {}

\* C13 as claimed: a dry run (check mode) changes nothing: the data
\* directory, the archive directory and the restore work area stay as the
\* run found them, and recovery.conf is not written.
C13_AsClaimed ==
    \A p \in Procs :
        (Solo(p) /\ loc[p].check /\ loc[p].pc # "off") =>
            /\ pgdata = loc[p].pgdata0
            /\ arclog = loc[p].arclog0
            /\ work = loc[p].work0

\* the position of segment <<xlogid, seg>> in the sequence of all segments
SegNo(id, seg) == id * XLogSegsPerFile + seg

\* the segment a WAL file name stands for
SegNoOfName(name) == SegNo(name[2], name[3])

\* C14: the continuity check starts at the segment of the last restored
\* backup's start LSN (xlogid, xrecoff / XLogSegSize); each call of
\* search_next_wal continues where the one before stopped, moves the needed
\* segment forward by exactly one for every file it finds under an entry of
\* the timeline chain, and stops at the first segment that has a file under
\* no entry the chain still holds; it reports the first and the last file
\* found.  With segments 0, 1, 2 on disk and 3 missing it reports 0 to 2 and
\* leaves the needed segment at 3.
C14_ContinuityAdvancesByOne ==
    \A p \in Procs :
        LET ss == loc[p].searches IN
        /\ Len(ss) >= 1 =>
              LET backup == Get(loc[p].backups, loc[p].last_restored_index)
              IN /\ ss[1].needId = backup.start_lsn[1]
                 /\ ss[1].needSeg * XLogSegSize <= backup.start_lsn[2]
                 /\ backup.start_lsn[2] < (ss[1].needSeg + 1) * XLogSegSize
                 /\ loc[p].needId = ss[Len(ss)].out.needId
                 /\ loc[p].needSeg = ss[Len(ss)].out.needSeg
        /\ \A k \in 1 .. Len(ss) - 1 :
              /\ ss[k + 1].needId = ss[k].out.needId
              /\ ss[k + 1].needSeg = ss[k].out.needSeg
        /\ \A k \in 1 .. Len(ss) :
              LET c == ss[k]
                  n == c.out.count
                  first == SegNo(c.needId, c.needSeg)
              IN /\ c.out.needSeg < XLogSegsPerFile
                 /\ SegNo(c.out.needId, c.out.needSeg) = first + n
                 /\ Len(c.out.found) = n
                 /\ \A j \in 1 .. n :
                       /\ c.out.found[j] \in c.present
                       /\ SegNoOfName(c.out.found[j]) = first + j - 1
                       /\ \E e \in 1 .. Len(c.timelines) :
                             c.timelines[e].tli = c.out.found[j][1]
                 /\ \A e \in 1 .. Len(c.out.timelines) :
                       XLogFileName(c.out.timelines[e].tli, c.out.needId,
                                    c.out.needSeg) \notin c.present

\* C14 witness: the first call of search_next_wal, seeded with segment 0,
\* found segments 0, 1 and 2 and no segment 3: it reports 0 to 2 and the
\* needed segment is 3
C14_Witness ==
    \E p \in Procs :
        /\ Len(loc[p].searches) >= 1
        /\ LET c == loc[p].searches[1]
           IN /\ c.needId = 0 /\ c.needSeg = 0
              /\ c.out.count = 3
              /\ c.out.found[1][3] = 0
              /\ c.out.found[3][3] = 2
              /\ c.out.needId = 0 /\ c.out.needSeg = 3
              /\ \A t \in 1 .. MaxWalTLI : XLogFileName(t, 0, 3) \notin c.present

\* the history file readTimeLineHistory was given by process p, when p has
\* called it: <<>> when there is no file
HistoryRead(p) ==
    IF loc[p].target_tli \in env.tlhist THEN env.history[loc[p].target_tli]
    ELSE <<>>

\* the records of a history file: its lines but the blank and comment ones
Records(lines) == SelectSeq(lines, LAMBDA l : l.syn # "skip")

\* every record parses, the ids increase strictly and stay below the target
WellFormed(recs, target) ==
    /\ \A k \in 1 .. Len(recs) : recs[k].syn = "ok"
    /\ \A k \in 1 .. Len(recs) - 1 : recs[k].tli < recs[k + 1].tli
    /\ \A k \in 1 .. Len(recs) : recs[k].tli < target

\* process p has called readTimeLineHistory
HasReadHistory(p) ==
    \/ loc[p].pc \in LockedPcs \ {"pg_running", "get_list", "backup_online",
                                  "snap_xlog", "snap_srvlog", "clear", "history"}
    \/ loc[p].pc = "done"
    \/ loc[p].pc = "exited" /\ loc[p].at \notin BeforeClearPcs \cup {"clear"}

\* C15: for a history file of n well-formed records with strictly
\* increasing ids all below the target (n = 0 when there is no file),
\* readTimeLineHistory does not fail and returns n + 1 entries: the target
\* with the unbounded end <<UINT32_MAX, UINT32_MAX>> first, then the records
\* from the last to the first, each with its id and end; the ids decrease
\* strictly along the list, that is they increase from root to target.
C15_ChainOfWellFormedHistory ==
    \A p \in Procs :
        LET recs == Records(HistoryRead(p))
            n == Len(recs)
            chain == loc[p].timelines
        IN (HasReadHistory(p) /\ ~loc[p].check
            /\ WellFormed(recs, loc[p].target_tli)) =>
              /\ ~(loc[p].pc = "exited" /\ loc[p].at = "history")
              /\ Len(chain) = n + 1
              /\ chain[1] = TimeLine(loc[p].target_tli, <<UINT32_MAX, UINT32_MAX>>)
              /\ \A k \in 1 .. n :
                    chain[n + 2 - k] = TimeLine(recs[k].tli, recs[k].end)
              /\ \A k \in 1 .. n : chain[k].tli > chain[k + 1].tli

\* C15 witness: the history file of target 3 holds the records of timelines
\* 1 and 2, and the chain read has the three entries 3, 2, 1
C15_Witness ==
    \E p \in Procs :
        /\ loc[p].pc = "find_base"
        /\ loc[p].target_tli = 3
        /\ Len(Records(HistoryRead(p))) = 2
        /\ Len(loc[p].timelines) = 3
        /\ loc[p].timelines[1] = TimeLine(3, UnboundedLSN)
        /\ loc[p].timelines[2].tli = 2
        /\ loc[p].timelines[3].tli = 1
        /\ loc[p].timelines[2].end # loc[p].timelines[3].end

\* C16: readTimeLineHistory ends the run with ERROR_CORRUPTED and leaves no
\* chain whenever a record of the history file has no numeric id, has no
\* valid end WAL file name, has an id not above the id of the record before
\* it, or the target is not above the id of the last record.
C16_MalformedHistoryRejected ==
    \A p \in Procs :
        LET recs == Records(HistoryRead(p))
            malformed ==
                \/ \E k \in 1 .. Len(recs) : recs[k].syn # "ok"
                \/ \E k \in 1 .. Len(recs) - 1 : recs[k + 1].tli <= recs[k].tli
                \/ Len(recs) >= 1 /\ loc[p].target_tli <= recs[Len(recs)].tli
        IN /\ (malformed /\ loc[p].pc \notin {"off", "exited"}) =>
                 loc[p].pc \in BeforeClearPcs \cup {"clear", "history"}
           /\ (malformed /\ loc[p].pc = "exited") =>
                 /\ loc[p].at \in BeforeClearPcs \cup {"clear", "history"}
                 /\ loc[p].at = "history" => loc[p].code = "ERROR_CORRUPTED"
                 /\ loc[p].timelines = <<>>

\* C16 witness: a history file with the record of timeline 2 before the
\* record of timeline 1 has ended the run with ERROR_CORRUPTED
C16_Witness ==
    \E p \in Procs :
        /\ loc[p].pc = "exited"
        /\ loc[p].at = "history"
        /\ loc[p].code = "ERROR_CORRUPTED"
        /\ LET recs == Records(HistoryRead(p))
           IN /\ Len(recs) = 2
              /\ recs[1].syn = "ok" /\ recs[1].tli = 2
              /\ recs[2].syn = "ok" /\ recs[2].tli = 1
              /\ loc[p].target_tli = 3

\* process p is inside the second application of restore_database to a
\* backup
SecondApplication(p) ==
    /\ loc[p].again.b >= 0
    /\ loc[p].again.b = loc[p].rd.b
    /\ loc[p].pc \in RdPcs

\* C17: when restore_database, applied a second time in succession to the
\* same backup and the same PGDATA, returns, PGDATA is the tree the first
\* application left: the same paths with the same contents.
C17_SecondApplicationIsIdentity ==
    [][\A p \in Procs :
          (SecondApplication(p) /\ loc[p].pc = "rd_pid" /\ loc'[p].pc = "incr") =>
              pgdata' = loc[p].again.tree]_vars

\* C17 witness: the second application of the incremental backup, whose
\* first application deleted a relation file of the full backup that it no
\* longer lists, has returned
C17_Witness ==
    \E p \in Procs :
        /\ loc[p].pc = "incr"
        /\ loc[p].again.b = 0
        /\ loc[p].rd.b = 0
        /\ loc[p].last_restored_index = 0
        /\ Len(loc[p].backups) = 2
        /\ P_BASE_2 \in ManifestPaths(Get(loc[p].backups, 1))
        /\ P_BASE_2 \notin ManifestPaths(Get(loc[p].backups, 0))
        /\ P_BASE_2 \notin DOMAIN pgdata
        /\ P_BASE_1 \in DOMAIN pgdata
        /\ pgdata = loc[p].again.tree

\* process p is at the top of an iteration of the loop over the files of
\* restore_database or restore_archive_logs, with an entry left to process
AtEntry(p) ==
    /\ loc[p].pc \in {"rd_files", "ra_files"}
    /\ loc[p].rd.j < Len(loc[p].rd.files)

\* C18: each iteration of the two loops starts with the test of
\* interrupted: when the flag is set, the iteration copies and links
\* nothing and ends the run with ERROR_INTERRUPTED, after which the process
\* changes no file (a step in which a system call fails is not an
\* iteration).
C18_InterruptPolledPerEntry ==
    [][\A p \in Procs :
          /\ (AtEntry(p) /\ loc[p].interrupted /\ loc'[p] # loc[p]
                /\ faults' = faults) =>
                /\ loc'[p].pc = "exited"
                /\ loc'[p].code = "ERROR_INTERRUPTED"
                /\ loc'[p].at = loc[p].pc
                /\ pgdata' = pgdata
                /\ arclog' = arclog
          /\ (Solo(p) /\ loc[p].pc = "exited" /\ loc[p].code = "ERROR_INTERRUPTED") =>
                (pgdata' = pgdata /\ arclog' = arclog /\ work' = work)]_vars

\* C18 witness: the run was interrupted in restore_database after the
\* first file of the backup was written and before the second one, which
\* was not
C18_Witness ==
    \E p \in Procs :
        /\ loc[p].pc = "exited"
        /\ loc[p].code = "ERROR_INTERRUPTED"
        /\ loc[p].at = "rd_files"
        /\ ~loc[p].check
        /\ loc[p].rd.j >= 1
        /\ loc[p].rd.j < Len(loc[p].rd.files)
        /\ pgdata[Get(loc[p].rd.files, loc[p].rd.j - 1).path]
              = FileContent(RdBackup(p), Get(loc[p].rd.files, loc[p].rd.j - 1).path)
        /\ Get(loc[p].rd.files, loc[p].rd.j).path \notin DOMAIN pgdata

\* the path ends in ".history"
EndsInHistory(path) == path # <<>> /\ path[Len(path)] = HIST

\* C19 as claimed: an iteration of the loop of restore_archive_logs on an
\* entry whose path ends in ".history" copies and links nothing, whatever
\* else the path holds.
C19_AsClaimed ==
    [][\A p \in Procs :
          (/\ loc[p].pc = "ra_files"
           /\ loc[p].rd.j < Len(loc[p].rd.files)
           /\ EndsInHistory(Get(loc[p].rd.files, loc[p].rd.j).path)
           /\ loc'[p] # loc[p]) => arclog' = arclog]_vars

\* C20 as claimed: in every call of search_next_wal, a segment found after
\* another one is on the same or a newer timeline, the chain the call
\* leaves holds no entry for a timeline older than the one of the last
\* segment found, and the chain still starts with the target's entry.
C20_AsClaimed ==
    \A p \in Procs :
        \A c \in 1 .. Len(loc[p].searches) :
            LET call == loc[p].searches[c]
                found == call.out.found
            IN /\ \A k \in 1 .. Len(found) - 1 : found[k][1] <= found[k + 1][1]
               /\ found # <<>> =>
                     \A e \in 1 .. Len(call.out.timelines) :
                         call.out.timelines[e].tli >= found[Len(found)][1]
               /\ call.out.timelines # <<>>
               /\ call.out.timelines[1] = call.timelines[1]

\* a backup after the one restore_database is working on is still to be
\* restored on top of the base backup
MoreToRestore(p) ==
    \E i \in 0 .. loc[p].rd.b - 1 :
        UseIncremental(loc[p].timelines, Get(loc[p].backups, loc[p].base_index),
                       Get(loc[p].backups, i))

\* C21 as claimed: no deletion of the reconciliation pass happens before the
\* last selected backup has been copied.
C21_AsClaimed ==
    [][\A p \in Procs :
          (loc[p].pc = "rd_reconcile" /\ pgdata' # pgdata) => ~MoreToRestore(p)]_vars

\* C21: in a restore that is not a dry run every call of restore_database,
\* for the base backup and for each incremental alike, ends its own
\* reconciliation pass: when the pass of a call is over, PGDATA holds no
\* entry outside pg_xlog that the manifest of that call's backup does not
\* list, whether or not more backups are still to be restored.
C21_ReconciledAfterEveryBackup ==
    [][\A p \in Procs :
          (loc[p].pc = "rd_reconcile" /\ loc'[p].pc = "rd_pid" /\ ~loc[p].check) =>
              Extras(pgdata', RdBackup(p)) = {}]_vars

\* C21 witness: the newest of three chain backups is about to be copied, and
\* a file of the full backup that the older incremental no longer lists is
\* already deleted from PGDATA
C21_Witness ==
    \E p \in Procs :
        /\ loc[p].pc = "rd_start"
        /\ ~loc[p].check
        /\ loc[p].rd.b = 0
        /\ Len(loc[p].db_calls) = 3
        /\ P_BASE_2 \in ManifestPaths(loc[p].db_calls[1].backup)
        /\ P_BASE_2 \notin ManifestPaths(loc[p].db_calls[2].backup)
        /\ P_BASE_2 \notin DOMAIN pgdata
        /\ P_BASE_1 \in DOMAIN pgdata

\* the loop over the archived WAL of process p is over
ArchiveLoopOver(p) == loc[p].pc \in {"online", "search", "conf", "unlock", "done"}

\* the catalog indexes passed to restore_archive_logs
ArcIndexes(p) == { loc[p].arc_calls[k].index : k \in 1 .. Len(loc[p].arc_calls) }

\* C22 as claimed: when the loop over the archived WAL is over, every backup
\* that was passed to restore_database and carries archived WAL has been
\* passed to restore_archive_logs.
C22_AsClaimed ==
    \A p \in Procs :
        ArchiveLoopOver(p) =>
            \A k \in 1 .. Len(loc[p].db_calls) :
                HAVE_ARCLOG(loc[p].db_calls[k].backup) =>
                    loc[p].db_calls[k].index \in ArcIndexes(p)

\* C22: restore_archive_logs is called, from older to newer, for backups
\* no older than the last backup passed to restore_database and for no
\* other: in a restore that is not a dry run, for exactly those of them
\* that are OK, carry archived WAL and satisfy the timeline chain. The base
\* backup and the incrementals before the last restored one are not among
\* them.
C22_ArchiveFromLastRestored ==
    \A p \in Procs :
        ArchiveLoopOver(p) =>
            /\ \A k \in 1 .. Len(loc[p].arc_calls) :
                  loc[p].arc_calls[k].index <= loc[p].last_restored_index
            /\ \A k \in 1 .. Len(loc[p].arc_calls) - 1 :
                  loc[p].arc_calls[k].index > loc[p].arc_calls[k + 1].index
            /\ ~loc[p].check =>
                  ArcIndexes(p) =
                     { i \in 0 .. loc[p].last_restored_index :
                         UseArchive(loc[p].timelines, Get(loc[p].backups, i)) }

\* C22 witness: a restore of a full backup and an incremental, both with
\* archived WAL, has completed; restore_archive_logs was called for the
\* incremental only and the WAL segment of the full backup is not in the
\* archive directory
C22_Witness ==
    \E p \in Procs :
        /\ loc[p].pc = "done"
        /\ ~loc[p].check
        /\ Len(loc[p].db_calls) = 2
        /\ HAVE_ARCLOG(loc[p].db_calls[1].backup)
        /\ <<1, 0, 0>> \in StoredArclog(loc[p].db_calls[1].backup)
        /\ <<1, 0, 0>> \notin arclog
        /\ Len(loc[p].arc_calls) = 1
        /\ loc[p].arc_calls[1].index = loc[p].last_restored_index
        /\ <<1, 0, 1>> \in arclog

\* process p takes the step that decides between the snapshot in the work
\* area and a new one
SnapshotDecision(p) == loc[p].pc = "backup_online" /\ loc'[p].pc # "backup_online"

\* C23 as claimed: the snapshot is reused exactly when the work area's
\* pg_xlog holds files and the current timeline equals the latest full
\* backup's timeline; with an unknown current timeline (0) it is taken anew.
C23_AsClaimed ==
    [][\A p \in Procs :
          SnapshotDecision(p) =>
              (loc'[p].snapshot = "reused" <=>
                  (work.xlog # {} /\ loc[p].cur_tli = loc[p].backup_tli))]_vars

\* C23: backup_online_files reuses the snapshot and copies nothing exactly
\* when the work area's pg_xlog holds files and the current timeline is
\* unknown (0) or equal to the latest full backup's timeline; in every other
\* case it copies the files of PGDATA/pg_xlog and of the server-log
\* directory into the work area.
C23_ReuseUnlessReRecovery ==
    [][\A p \in Procs :
          /\ SnapshotDecision(p) =>
                /\ loc'[p].snapshot = "reused" <=>
                      /\ work.xlog # {}
                      /\ loc[p].cur_tli = 0 \/ loc[p].cur_tli = loc[p].backup_tli
                /\ loc'[p].snapshot = "reused" => loc'[p].pc = "clear" /\ work' = work
                /\ loc'[p].snapshot # "reused" =>
                      /\ loc'[p].pc = "snap_xlog"
                      /\ loc'[p].todo = XlogFiles(pgdata)
          /\ (loc[p].pc = "snap_srvlog" /\ loc'[p].pc = "clear") =>
                /\ loc[p].snapshot = "copying"
                /\ XlogFiles(pgdata) \subseteq work'.xlog
                /\ env.srvlog \subseteq work'.srvlog]_vars

\* C23 witness: the control file of PGDATA cannot be read (current timeline
\* 0), the work area holds online WAL, and the snapshot was reused
C23_Witness ==
    \E p \in Procs :
        /\ loc[p].pc = "clear"
        /\ loc[p].snapshot = "reused"
        /\ loc[p].cur_tli = 0
        /\ loc[p].backup_tli # 0
        /\ work.xlog # {}
        /\ work = loc[p].work0

\* the timeline chain of process p as readTimeLineHistory returned it,
\* before any call of search_next_wal
ChainRead(p) ==
    IF loc[p].searches = <<>> THEN loc[p].timelines
    ELSE loc[p].searches[1].timelines

\* the catalog indexes passed to restore_database
DbIndexes(p) == { loc[p].db_calls[k].index : k \in 1 .. Len(loc[p].db_calls) }

\* the backup at catalog index n as the loop over the incrementals met it:
\* as it was passed to restore_database, before pgBackupValidate set its
\* status, when it was passed
MetBackup(p, n) ==
    IF n \in DbIndexes(p)
    THEN (CHOOSE c \in { loc[p].db_calls[k] : k \in 1 .. Len(loc[p].db_calls) } :
             c.index = n).backup
    ELSE Get(loc[p].backups, n)

\* the indexes a restore that is not a dry run passes to restore_database
\* and to restore_archive_logs (C3, C22), from the catalog and the chain of
\* process p
RealDbIndexes(p) ==
    {loc[p].base_index} \cup
    { i \in 0 .. loc[p].base_index - 1 :
        UseIncremental(ChainRead(p), MetBackup(p, loc[p].base_index),
                       MetBackup(p, i)) }
RealArcIndexes(p) ==
    { i \in 0 .. loc[p].last_restored_index :
        UseArchive(ChainRead(p), Get(loc[p].backups, i)) }

=============================================================================
